---------------------------- MODULE Spec2Model ----------------------------
(***************************************************************************)
(* aionFS dev daemon: the JSON-backed FileStore (internal/store/store.go)  *)
(* and the HTTP handlers that drive it (internal/httpapi/server.go).       *)
(*                                                                         *)
(* A request handler is a goroutine.  Its atomic steps are the store calls *)
(* it makes: each store call runs under FileStore.mu, so the code between  *)
(* two store calls (local to the goroutine) is folded into the step of a   *)
(* store call next to it.  A writing store call is split further:          *)
(* the in-memory update under the lock, then the steps of flushLocked      *)
(* (open the temporary file, encode, close, rename), so that a crash or an *)
(* I/O error can fall between any two of them.                             *)
(***************************************************************************)
EXTENDS Integers, Sequences, FiniteSets, TLC

(***************************************************************************)
(* Bounds of the model.                                                    *)
(***************************************************************************)
MaxVols   == 2   \* volume ids handed out by handleCreateVolume
MaxSnaps  == 3   \* snapshot ids handed out
MaxCps    == 1   \* manifest ids handed out
MaxFaults == 1   \* I/O errors injected into flushLocked
MaxBoots  == 2   \* process starts (NewFileStore), so MaxBoots - 1 restarts
MaxIDs    == 2   \* length of a checkpoint request's volume_ids
MaxReqs   == 3   \* requests sent to the process that crashes and restarts
MaxCatalogReqs == 4  \* requests sent to the snapshot and checkpoint handlers
MaxListReqs == 4     \* requests sent where the token provider comes and goes
MaxLockReqs == 3     \* requests sent where the lock is watched
MaxFairReqs == 2     \* requests sent where every request must end
MaxClockReqs == 3    \* requests sent while the clock runs
MaxNow    == 3   \* the clock's last reading

Procs      == {"p1", "p2"}            \* concurrent request goroutines
Principals == {"service:app1", "admin:ops"}
NoPrincipal == ""                     \* no principal in the request context

VolIDs  == 1 .. MaxVols

(***************************************************************************)
(* Constants of server.go.                                                 *)
(***************************************************************************)
mountStateAttached  == "attached"
mountStateAvailable == "available"
autoNote            == "auto-generated for checkpoint"
mountRoot           == "/run/aionfs/mounts"

\* A path is the sequence of its parts: s.path + ".tmp" appends one.
statePath == <<"state.json">>
\* The temporary path taken to be the state path itself, to test what the
\* properties need of the temporary file.
TmpPathOfMutant(p) == p
TmpPathOf(p) == p \o <<".tmp">>
Paths == {statePath, TmpPathOf(statePath)}

(***************************************************************************)
(* Finite maps (Go maps) and small helpers.                                *)
(***************************************************************************)
EmptyMap == [x \in {} |-> 0]
MapPut(m, k, v) == [x \in (DOMAIN m) \cup {k} |-> IF x = k THEN v ELSE m[x]]
MapDel(m, k) == [x \in (DOMAIN m) \ {k} |-> m[x]]
MapGet(m, k, dflt) == IF k \in DOMAIN m THEN m[k] ELSE dflt

Range(s) == {s[i] : i \in DOMAIN s}
IsPrefix(s, t) == Len(s) <= Len(t) /\ \A i \in 1 .. Len(s) : s[i] = t[i]
Last(s) == s[Len(s)]

(***************************************************************************)
(* store.Volume, store.Session: a nil *Session is NoSession.               *)
(***************************************************************************)
NoSession == [nil |-> TRUE]
NoVolume  == [nil |-> TRUE]
NoSnapshot == [nil |-> TRUE]

Session(sid, principal, endpoint, at) ==
    [SessionID |-> sid, Principal |-> principal,
     ConsumerEndpoint |-> endpoint, AttachedAt |-> at]


(***************************************************************************)
(* handleCreateVolume: the defaults and the record it hands to PutVolume.  *)
(***************************************************************************)
DefaultExportMode(m) == IF m = "" THEN "fs" ELSE m
DefaultClass(c) == IF c = "" THEN "persistent" ELSE c

\* A record that starts out attached, to test what the properties need of
\* the one handleCreateVolume builds.
NewVolumeMutant(id, owner, class, quota, profile, mode) ==
    [VolumeID |-> id, OwnerPrincipal |-> owner,
     Class |-> DefaultClass(class), QuotaBytes |-> quota,
     PolicyProfile |-> profile, ExportMode |-> DefaultExportMode(mode),
     MountHandle |-> [Mode |-> DefaultExportMode(mode),
                      HostPath |-> <<mountRoot, id>>,
                      State |-> mountStateAttached],
     AttachState |-> mountStateAttached,
     AttachSession |-> NoSession,
     CreatedAt |-> 0, UpdatedAt |-> 0]
NewVolume(id, owner, class, quota, profile, mode) ==
    [VolumeID |-> id, OwnerPrincipal |-> owner,
     Class |-> DefaultClass(class), QuotaBytes |-> quota,
     PolicyProfile |-> profile, ExportMode |-> DefaultExportMode(mode),
     MountHandle |-> [Mode |-> DefaultExportMode(mode),
                      HostPath |-> <<mountRoot, id>>,
                      State |-> mountStateAvailable],
     AttachState |-> mountStateAvailable,
     AttachSession |-> NoSession,
     CreatedAt |-> 0, UpdatedAt |-> 0]

(***************************************************************************)
(* handleAttachVolume / handleDetachVolume: the edits made to the copy of  *)
(* the volume that GetVolume returned, before it goes back to PutVolume.   *)
(***************************************************************************)
\* handleAttachVolume, lines 257-258, and handleDetachVolume, lines 307-308:
\* the two state fields are set together.
\* An edit that leaves the mount handle as it was, to test what the
\* properties need of lines 258 and 308.
SetAttachStateMutant(vol, st) == [vol EXCEPT !.AttachState = st]
SetAttachState(vol, st) ==
    [vol EXCEPT !.AttachState = st, !.MountHandle.State = st]

\* An attach that forgets the consumer endpoint, to test what the properties
\* need of the session.
AttachEditMutant(vol, sid, principal, endpoint, at) ==
    [vol EXCEPT !.AttachState = mountStateAttached,
                !.MountHandle.State = mountStateAttached,
                !.AttachSession = Session(sid, principal, "", at)]
AttachEdit(vol, sid, principal, endpoint, at) ==
    [SetAttachState(vol, mountStateAttached)
        EXCEPT !.AttachSession = Session(sid, principal, endpoint, at)]

\* A detach that keeps the session, to test what the properties need of it.
DetachEditMutant(vol) ==
    [vol EXCEPT !.AttachState = mountStateAvailable,
                !.MountHandle.State = mountStateAvailable]
DetachEdit(vol) ==
    [SetAttachState(vol, mountStateAvailable) EXCEPT !.AttachSession = NoSession]

(***************************************************************************)
(* FileStore: the in-memory updates of the writing calls.                  *)
(***************************************************************************)
\* PutVolume, lines 136-147: stamp the times, then upsert.
StampVolume(vols, v, t) ==
    LET created == IF v.VolumeID \in DOMAIN vols
                   THEN IF vols[v.VolumeID].CreatedAt # 0
                        THEN vols[v.VolumeID].CreatedAt
                        ELSE t
                   ELSE t
    IN  [v EXCEPT !.UpdatedAt = t, !.CreatedAt = created]

\* A PutVolume that keeps the record a volume already has, to test what the
\* properties need of the upsert.
PutVolumeMemMutant(vols, v, t) ==
    IF v.VolumeID \in DOMAIN vols THEN vols
    ELSE MapPut(vols, v.VolumeID, StampVolume(vols, v, t))
PutVolumeMem(vols, v, t) == MapPut(vols, v.VolumeID, StampVolume(vols, v, t))

\* AddSnapshot, lines 161-162.
\* An AddSnapshot that puts the snapshot first, to test what the properties
\* need of the append.
AddSnapshotMemMutant(sn, vid, snap) ==
    MapPut(sn, vid, <<snap>> \o MapGet(sn, vid, <<>>))
AddSnapshotMem(sn, vid, snap) ==
    MapPut(sn, vid, Append(MapGet(sn, vid, <<>>), snap))

\* AddSnapshot, line 158: the volume is in the registry.
\* An AddSnapshot that does not look the volume up, to test what the
\* properties need of line 158.
AddSnapshotKnownMutant(vols, vid) == TRUE
AddSnapshotKnown(vols, vid) == vid \in DOMAIN vols

\* DeleteVolume, line 230.
\* A DeleteVolume that takes the snapshot list along, to test what the
\* properties need of line 230.
DeleteVolumeMemMutant(vols, sn, id) ==
    [volumes |-> MapDel(vols, id), snaps |-> MapDel(sn, id)]
DeleteVolumeMem(vols, sn, id) ==
    [volumes |-> MapDel(vols, id), snaps |-> sn]

\* PutCheckpoint, line 205.
PutCheckpointMem(cps, c) == MapPut(cps, c.ManifestID, c)

(***************************************************************************)
(* FileStore: the reading calls, as functions of the maps.                 *)
(***************************************************************************)
GetVolume(vols, id) == IF id \in DOMAIN vols THEN vols[id] ELSE NoVolume

ListVolumes(vols) == {vols[id] : id \in DOMAIN vols}

\* A filter that keeps the volumes of everyone else, to test what the
\* properties need of the comparison.
ListVolumesByOwnerMutant(vols, owner) ==
    {vols[id] : id \in {x \in DOMAIN vols : vols[x].OwnerPrincipal # owner}}
ListVolumesByOwner(vols, owner) ==
    {vols[id] : id \in {x \in DOMAIN vols : vols[x].OwnerPrincipal = owner}}

ListSnapshots(sn, vid) == MapGet(sn, vid, <<>>)

LatestSnapshot(sn, vid) ==
    LET l == MapGet(sn, vid, <<>>)
    IN  IF Len(l) = 0 THEN NoSnapshot ELSE l[Len(l)]

\* VolumeIDForSnapshot: the volume ids under which a snapshot with this id is
\* filed.  The Go loop returns the first one its map iteration meets.
VolumeIDsForSnapshot(sn, sid) ==
    {vid \in DOMAIN sn : \E i \in 1 .. Len(sn[vid]) : sn[vid][i].SnapshotID = sid}

(***************************************************************************)
(* encoding/json: what flushLocked writes and load reads back.  A JSON     *)
(* object is a function from its keys; a field tagged omitempty is left    *)
(* out when it holds its zero value, and a key that is missing decodes to  *)
(* the zero value.                                                         *)
(***************************************************************************)
EncSession(s) ==
    [session_id |-> s.SessionID, principal |-> s.Principal,
     consumer_endpoint |-> s.ConsumerEndpoint, attached_at |-> s.AttachedAt]

DecSession(o) == Session(o.session_id, o.principal, o.consumer_endpoint, o.attached_at)

EncMount(m) == [mode |-> m.Mode, host_path |-> m.HostPath, state |-> m.State]
DecMount(o) == [Mode |-> o.mode, HostPath |-> o.host_path, State |-> o.state]

\* An encoding that leaves attach_session out always, to test what the
\* properties need of the encoding.
EncVolumeMutant(v) ==
    [volume_id |-> v.VolumeID, owner_principal |-> v.OwnerPrincipal,
     class |-> v.Class, quota_bytes |-> v.QuotaBytes,
     policy_profile |-> v.PolicyProfile, export_mode |-> v.ExportMode,
     mount_handle |-> EncMount(v.MountHandle), attach_state |-> v.AttachState,
     created_at |-> v.CreatedAt, updated_at |-> v.UpdatedAt]
EncVolume(v) ==
    IF v.AttachSession = NoSession
    THEN [volume_id |-> v.VolumeID, owner_principal |-> v.OwnerPrincipal,
          class |-> v.Class, quota_bytes |-> v.QuotaBytes,
          policy_profile |-> v.PolicyProfile, export_mode |-> v.ExportMode,
          mount_handle |-> EncMount(v.MountHandle), attach_state |-> v.AttachState,
          created_at |-> v.CreatedAt, updated_at |-> v.UpdatedAt]
    ELSE [volume_id |-> v.VolumeID, owner_principal |-> v.OwnerPrincipal,
          class |-> v.Class, quota_bytes |-> v.QuotaBytes,
          policy_profile |-> v.PolicyProfile, export_mode |-> v.ExportMode,
          mount_handle |-> EncMount(v.MountHandle), attach_state |-> v.AttachState,
          attach_session |-> EncSession(v.AttachSession),
          created_at |-> v.CreatedAt, updated_at |-> v.UpdatedAt]

DecVolume(o) ==
    [VolumeID |-> o.volume_id, OwnerPrincipal |-> o.owner_principal,
     Class |-> o.class, QuotaBytes |-> o.quota_bytes,
     PolicyProfile |-> o.policy_profile, ExportMode |-> o.export_mode,
     MountHandle |-> DecMount(o.mount_handle), AttachState |-> o.attach_state,
     AttachSession |-> IF "attach_session" \in DOMAIN o
                       THEN DecSession(o.attach_session) ELSE NoSession,
     CreatedAt |-> o.created_at, UpdatedAt |-> o.updated_at]

EncSnapshot(s) ==
    IF s.Note = ""
    THEN [snapshot_id |-> s.SnapshotID, volume_id |-> s.VolumeID,
          created_at |-> s.CreatedAt]
    ELSE [snapshot_id |-> s.SnapshotID, volume_id |-> s.VolumeID,
          created_at |-> s.CreatedAt, note |-> s.Note]

DecSnapshot(o) ==
    [SnapshotID |-> o.snapshot_id, VolumeID |-> o.volume_id,
     CreatedAt |-> o.created_at,
     Note |-> IF "note" \in DOMAIN o THEN o.note ELSE ""]

EncCheckpoint(c) ==
    IF c.Note = ""
    THEN [manifest_id |-> c.ManifestID, snapshot_ids |-> c.SnapshotIDs,
          created_at |-> c.CreatedAt]
    ELSE [manifest_id |-> c.ManifestID, snapshot_ids |-> c.SnapshotIDs,
          created_at |-> c.CreatedAt, note |-> c.Note]

DecCheckpoint(o) ==
    [ManifestID |-> o.manifest_id, SnapshotIDs |-> o.snapshot_ids,
     CreatedAt |-> o.created_at,
     Note |-> IF "note" \in DOMAIN o THEN o.note ELSE ""]

\* The fileState payload of flushLocked, lines 273-277, encoded.
EncodeState(vols, sn, cps) ==
    [volumes |-> [id \in DOMAIN vols |-> EncVolume(vols[id])],
     snapshots |-> [id \in DOMAIN sn |->
                      [i \in 1 .. Len(sn[id]) |-> EncSnapshot(sn[id][i])]],
     checkpoints |-> [id \in DOMAIN cps |-> EncCheckpoint(cps[id])]]

\* load, lines 246-261: decode, then replace a nil collection by an empty map.
DecodeState(d) ==
    [volumes |-> IF "volumes" \in DOMAIN d
                 THEN [id \in DOMAIN d.volumes |-> DecVolume(d.volumes[id])]
                 ELSE EmptyMap,
     snaps |-> IF "snapshots" \in DOMAIN d
               THEN [id \in DOMAIN d.snapshots |->
                       [i \in 1 .. Len(d.snapshots[id]) |->
                          DecSnapshot(d.snapshots[id][i])]]
               ELSE EmptyMap,
     cp |-> IF "checkpoints" \in DOMAIN d
            THEN [id \in DOMAIN d.checkpoints |-> DecCheckpoint(d.checkpoints[id])]
            ELSE EmptyMap]

(***************************************************************************)
(* Files on disk.                                                          *)
(***************************************************************************)
Absent   == [kind |-> "absent"]
\* A file that holds no complete JSON value: freshly truncated, or cut short.
Partial  == [kind |-> "partial"]
JSONFile(d) == [kind |-> "json", data |-> d]
EmptyObject == [x \in {} |-> 0]

EmptyState == [volumes |-> EmptyMap, snaps |-> EmptyMap, cp |-> EmptyMap]

\* load: [ok, state].  A missing file is not an error; a file that does not
\* decode is one.
\* A load that takes a file it cannot decode for an empty one, to test what
\* the properties need of lines 248-250.
LoadFileMutant(f) ==
    IF f.kind = "json" THEN [ok |-> TRUE, state |-> DecodeState(f.data)]
    ELSE [ok |-> TRUE, state |-> EmptyState]
LoadFile(f) ==
    IF f = Absent THEN [ok |-> TRUE, state |-> EmptyState]
    ELSE IF f.kind = "json" THEN [ok |-> TRUE, state |-> DecodeState(f.data)]
    ELSE [ok |-> FALSE, state |-> EmptyState]


(***************************************************************************)
(* State.                                                                  *)
(***************************************************************************)
VARIABLES
    srv,        \* "down" | "up" | "failed" (NewFileStore returned an error)
    auth,       \* Server.tokens # nil
    volumes,    \* FileStore.volumes
    snaps,      \* FileStore.snaps
    cp,         \* FileStore.cp
    mu,         \* FileStore.mu: the goroutine inside Lock(), or NoProc
    files,      \* the data directory: path -> content
    procs,      \* the goroutines: where each stands and its live locals
    resp,       \* the response a goroutine has just written, or NoResp
    nextVol,    \* uuid.NewString() for volumes: a fresh id each time
    nextSnap,   \* ... for snapshots
    nextCp,     \* ... for manifests
    now,        \* time.Now()
    left,       \* requests the clients may still send, or Unlimited
    committed,  \* history: the in-memory state of the last flush that renamed
    boots,      \* history: process starts so far
    faults      \* history: I/O errors so far

vars == <<srv, auth, volumes, snaps, cp, mu, files, procs, resp,
          nextVol, nextSnap, nextCp, now, left, committed, boots, faults>>

envVars  == <<srv, auth, now, boots, faults>>
memVars  == <<volumes, snaps, cp>>
diskVars == <<files, committed>>
idVars   == <<nextVol, nextSnap, nextCp>>

Main     == "main"                    \* the goroutine of func main
NoProc   == "none"
AllProcs == Procs \cup {Main}
Unlimited == -1

Mem == [volumes |-> volumes, snaps |-> snaps, cp |-> cp]

\* Volume id vid was given out and is not in the registry: in a process that
\* has run without a stop since, a DeleteVolume removed it.
WasDeleted(vid) == vid < nextVol /\ vid \notin DOMAIN volumes

\* The locals of a goroutine that are still live at its next store call, and
\* for the record: who called (caller), on which volume (vid), and the owner
\* the handler's GetVolume showed it (owner), the body of a create or attach
\* request (req) and the volume ids a checkpoint request named (named).
NoOwner == "-"
IdleProc ==
    [pc |-> "idle", op |-> "", caller |-> NoPrincipal, vid |-> 0,
     owner |-> NoOwner, val |-> NoVolume, note |-> "", named |-> <<>>,
     req |-> EmptyObject,
     ids |-> <<>>, i |-> 0, out |-> <<>>, call |-> ""]

(***************************************************************************)
(* Responses.  What a handler answers before its second store call is a    *)
(* function of the maps and the request: the operators named after the     *)
(* handlers below return it, with status 0 (Proceed) when the handler goes *)
(* on.  A handler that went on ends by writing its response to resp.       *)
(***************************************************************************)
Answer(status, code, body) == [status |-> status, code |-> code, body |-> body]
Rejected(status, code) == Answer(status, code, EmptyObject)
Proceed == Answer(0, "", EmptyObject)

NoResp == [op |-> "", caller |-> NoPrincipal, vid |-> 0, owner |-> NoOwner,
           status |-> 0, code |-> "", body |-> EmptyObject]

\* Goroutine p writes its response and ends.
Reply(p, a) ==
    /\ resp' = [op |-> procs[p].op, caller |-> procs[p].caller,
                vid |-> procs[p].vid, owner |-> procs[p].owner,
                status |-> a.status, code |-> a.code, body |-> a.body]
    /\ procs' = [procs EXCEPT ![p] = IdleProc]

\* resp is the response being written to a connection.  The model lets nothing
\* else happen until Deliver has taken it away: Deliver touches nothing the
\* server reads, so every interleaving of the server's steps is still there,
\* and resp always describes the state it is seen in.
Up == srv = "up" /\ resp = NoResp

\* A request runs on a goroutine of its own, and the model takes it up at its
\* first store call.  srv.Shutdown (main.go, lines 80-84) stops requests from
\* being accepted, not those accepted before: one that waited for its body or
\* for the lock makes its first store call at any moment until the process
\* exits, also while main is in Close.
Idle(p) == Up /\ procs[p].pc = "idle"

\* sync.RWMutex: RLock gets through when no writer holds the lock, Lock when
\* neither a writer nor a reader does.  A goroutine at "rlocked" is between
\* the RLock and the deferred RUnlock of a reading call.
RLockFree == mu = NoProc
\* A Lock that does not wait for the readers, to test what the properties
\* need of it.
LockFreeMutant == mu = NoProc
LockFree == mu = NoProc /\ \A q \in AllProcs : procs[q].pc # "rlocked"

\* A client sends one more request.
Send == left # 0 /\ left' = IF left = Unlimited THEN left ELSE left - 1

(***************************************************************************)
(* Request bodies the model sends.                                         *)
(***************************************************************************)
OwnerInputs    == {""} \cup Principals
SessionInputs  == {"", "sess-local"}
EndpointInputs == {"podman://piccolod/app1"}
NoteInputs     == {""}
\* "sess-" + uuid.NewString()[:8], line 254.
GeneratedSessionID == "sess-<uuid>"

CreateRequests ==
    [owner_principal : OwnerInputs, class : {""}, quota_bytes : {0},
     policy_profile : {""}, export_mode : {""}]
AttachRequests ==
    [principal : OwnerInputs, session_id : SessionInputs,
     consumer_endpoint : EndpointInputs]
SnapshotRequests == [note : NoteInputs]

RECURSIVE SeqsUpTo(_, _)
SeqsUpTo(S, n) ==
    IF n = 0 THEN {<<>>}
    ELSE LET shorter == SeqsUpTo(S, n - 1)
         IN  shorter \cup {Append(q, x) : q \in {r \in shorter : Len(r) = n - 1}, x \in S}

CheckpointRequests == [volume_ids : SeqsUpTo(VolIDs, MaxIDs), note : NoteInputs]

\* Every order in which a Go map iteration can yield the set S.
Orders(S) == {q \in SeqsUpTo(S, Cardinality(S)) :
                 Len(q) = Cardinality(S) /\ Range(q) = S}

(***************************************************************************)
(* Init, start and stop of the process.                                    *)
(***************************************************************************)
InitWith(budget) ==
    /\ srv = "down"
    /\ auth \in BOOLEAN
    /\ volumes = EmptyMap /\ snaps = EmptyMap /\ cp = EmptyMap
    /\ mu = NoProc
    /\ files = [x \in Paths |-> Absent]
    /\ procs = [p \in AllProcs |-> IdleProc]
    /\ resp = NoResp
    /\ nextVol = 1 /\ nextSnap = 1 /\ nextCp = 1
    /\ now = 1
    /\ left = budget
    /\ committed = EmptyState
    /\ boots = 0
    /\ faults = 0

Init == InitWith(Unlimited)

\* The process is gone: its memory and its goroutines with it.
ProcessGone ==
    /\ srv' = "down"
    /\ volumes' = EmptyMap /\ snaps' = EmptyMap /\ cp' = EmptyMap
    /\ mu' = NoProc
    /\ procs' = [p \in AllProcs |-> IdleProc]
    /\ resp' = NoResp

\* main: NewFileStore, lines 78-90, which loads the state file.
Start ==
    /\ srv = "down"
    /\ boots < MaxBoots
    /\ boots' = boots + 1
    /\ LET r == LoadFile(files[statePath])
       IN  IF r.ok
           THEN /\ srv' = "up"
                /\ volumes' = r.state.volumes
                /\ snaps' = r.state.snaps
                /\ cp' = r.state.cp
           ELSE /\ srv' = "failed"
                /\ UNCHANGED memVars
    /\ UNCHANGED <<auth, mu, procs, resp, idVars, now, left, diskVars, faults>>

\* The process is killed, at any point.
Crash ==
    /\ srv = "up"
    /\ ProcessGone
    /\ UNCHANGED <<auth, idVars, now, left, diskVars, boots, faults>>

(***************************************************************************)
(* The end of a writing store call: the deferred Unlock, and what the      *)
(* caller does with the result up to its next store call.                  *)
(***************************************************************************)
\* handleCreateCheckpoint, line 500 and the loop header: one more snapshot id
\* collected, on to the next volume id or to the manifest.
\* A loop that puts each new id first, to test what the properties need of
\* the append.
CheckpointAdvanceMutant(pr, sid) ==
    [pr EXCEPT !.out = <<sid>> \o pr.out,
               !.i = pr.i + 1,
               !.pc = IF pr.i + 1 > Len(pr.ids) THEN "cp_put" ELSE "cp_get",
               !.val = NoVolume, !.call = ""]
CheckpointAdvance(pr, sid) ==
    [pr EXCEPT !.out = Append(pr.out, sid),
               !.i = pr.i + 1,
               !.pc = IF pr.i + 1 > Len(pr.ids) THEN "cp_put" ELSE "cp_get",
               !.val = NoVolume, !.call = ""]

StoreError == Rejected(500, "store_error")

\* The handler's lines after a store call that returned no error.
ReturnOK(p) ==
    LET pr == procs[p]
    IN  CASE pr.op = "create" -> Reply(p, Answer(201, "", pr.val))
          [] pr.op \in {"attach", "detach"} -> Reply(p, Answer(200, "", pr.val))
          [] pr.op = "delete" -> Reply(p, Answer(204, "", EmptyObject))
          [] pr.op = "snapshot" -> Reply(p, Answer(201, "", pr.val))
          [] pr.op = "checkpoint" /\ pr.call = "AddSnapshot" ->
                /\ procs' = [procs EXCEPT ![p] = CheckpointAdvance(pr, pr.val.SnapshotID)]
                /\ resp' = resp
          [] pr.op = "checkpoint" /\ pr.call = "PutCheckpoint" ->
                Reply(p, Answer(201, "", pr.val))

\* The store call of goroutine p returns (err: with an error) and unlocks.
\* flush unlocks by its deferred Unlock (line 267) before Close returns to
\* main, whose exit is a step of its own: a goroutine that waited for the
\* lock can take it in between.
\* A return that leaves the lock held when the flush failed, to test what the
\* properties need of the deferred Unlock.
ReturnMutant(p, err) ==
    IF procs[p].op = "close"
    THEN /\ mu' = NoProc
         /\ procs' = [procs EXCEPT ![p].pc = "exit"]
         /\ UNCHANGED <<srv, memVars, resp>>
    ELSE /\ mu' = IF err THEN mu ELSE NoProc
         /\ UNCHANGED <<srv, memVars>>
         /\ IF err THEN Reply(p, StoreError) ELSE ReturnOK(p)
Return(p, err) ==
    IF procs[p].op = "close"
    THEN /\ mu' = NoProc
         /\ procs' = [procs EXCEPT ![p].pc = "exit"]
         /\ UNCHANGED <<srv, memVars, resp>>
    ELSE /\ mu' = NoProc
         /\ UNCHANGED <<srv, memVars>>
         /\ IF err THEN Reply(p, StoreError) ELSE ReturnOK(p)

(***************************************************************************)
(* flushLocked, by the goroutine that holds the lock.                      *)
(***************************************************************************)
InFlush(p, pc) == Up /\ mu = p /\ procs[p].pc = pc

\* A rename that does nothing, to test what the properties need of it.
RenameMutant(fs, from, to) == fs
Rename(fs, from, to) ==
    IF from = to THEN fs ELSE [fs EXCEPT ![to] = fs[from], ![from] = Absent]

\* line 278: os.OpenFile(tmpPath, O_CREATE|O_WRONLY|O_TRUNC).
FlushOpen(p) ==
    /\ InFlush(p, "fl_open")
    /\ files' = [files EXCEPT ![TmpPathOf(statePath)] = Partial]
    /\ procs' = [procs EXCEPT ![p].pc = "fl_encode"]
    /\ UNCHANGED <<envVars, memVars, mu, resp, idVars, left, committed>>

\* lines 282-284: enc.Encode(&payload) writes the whole payload.
FlushEncode(p) ==
    /\ InFlush(p, "fl_encode")
    /\ files' = [files EXCEPT ![TmpPathOf(statePath)] =
                    JSONFile(EncodeState(volumes, snaps, cp))]
    /\ procs' = [procs EXCEPT ![p].pc = "fl_close"]
    /\ UNCHANGED <<envVars, memVars, mu, resp, idVars, left, committed>>

\* line 288: f.Close().
FlushClose(p) ==
    /\ InFlush(p, "fl_close")
    /\ procs' = [procs EXCEPT ![p].pc = "fl_rename"]
    /\ UNCHANGED <<envVars, memVars, mu, resp, idVars, left, diskVars>>

\* lines 291-294: os.Rename(tmpPath, s.path), then the return.
FlushRename(p) ==
    /\ InFlush(p, "fl_rename")
    /\ files' = Rename(files, TmpPathOf(statePath), statePath)
    /\ committed' = Mem
    /\ Return(p, FALSE)
    /\ UNCHANGED <<auth, idVars, now, left, boots, faults>>

\* lines 279-281, 284-287, 288-290, 291-293: the step the goroutine is at
\* fails, and flushLocked returns the error.  The temporary file stays as the
\* steps before left it.
\* A failing flush that puts the maps back to what the state file holds, to
\* test what the properties need of the plain error return.
FlushFailMutant(p) ==
    /\ \E pc \in {"fl_open", "fl_encode", "fl_close", "fl_rename"} : InFlush(p, pc)
    /\ faults < MaxFaults
    /\ faults' = faults + 1
    /\ IF procs[p].op = "close"
       THEN /\ mu' = NoProc
            /\ procs' = [procs EXCEPT ![p].pc = "exit"]
            /\ UNCHANGED <<srv, memVars, resp>>
       ELSE /\ mu' = NoProc /\ srv' = srv
            /\ volumes' = committed.volumes /\ snaps' = committed.snaps
            /\ cp' = committed.cp
            /\ Reply(p, StoreError)
    /\ UNCHANGED <<auth, idVars, now, left, diskVars, boots>>
FlushFail(p) ==
    /\ \E pc \in {"fl_open", "fl_encode", "fl_close", "fl_rename"} : InFlush(p, pc)
    /\ faults < MaxFaults
    /\ faults' = faults + 1
    /\ Return(p, TRUE)
    /\ UNCHANGED <<auth, idVars, now, left, diskVars, boots>>

\* Close -> flush, lines 93-95 and 265-269: main takes the lock and flushes.
CloseBegin ==
    /\ Up /\ LockFree /\ procs[Main].pc = "idle"
    /\ mu' = Main
    /\ procs' = [procs EXCEPT ![Main] =
                    [IdleProc EXCEPT !.pc = "fl_open", !.op = "close", !.call = "flush"]]
    /\ UNCHANGED <<envVars, memVars, resp, idVars, left, diskVars>>

\* main.go, line 47 and the end of main: the deferred Close has returned, main
\* returns and the process exits, whatever the request goroutines that
\* srv.Shutdown did not wait for are doing.
Exit ==
    /\ srv = "up" /\ procs[Main].pc = "exit"
    /\ ProcessGone
    /\ UNCHANGED <<auth, idVars, now, left, diskVars, boots, faults>>

(***************************************************************************)
(* requireAuth and the request body.                                       *)
(***************************************************************************)
\* The token file of the deployment: token -> principal.
staticTokens == [t \in {"tok-app1", "tok-ops"} |->
                    IF t = "tok-app1" THEN "service:app1" ELSE "admin:ops"]

\* An Authorization header: absent (or not "Bearer "), or a bearer token.
NoHeader == [bearer |-> FALSE, token |-> ""]
Bearer(t) == [bearer |-> TRUE, token |-> t]
Headers == {NoHeader} \cup {Bearer(t) : t \in DOMAIN staticTokens \cup {"tok-unknown"}}

Unauthorized == Rejected(401, "unauthorized")

\* requireAuth, lines 40-62: Proceed with the principal as body, or 401.
\* A middleware that lets a request without a bearer token through, to test
\* what the properties need of line 48.
requireAuthMutant(tokens, au, authz) ==
    IF ~au \/ ~authz.bearer THEN Answer(0, "", NoPrincipal)
    ELSE IF authz.token \notin DOMAIN tokens THEN Unauthorized
    ELSE Answer(0, "", tokens[authz.token])
requireAuth(tokens, au, authz) ==
    IF ~au THEN Answer(0, "", NoPrincipal)
    ELSE IF ~authz.bearer THEN Unauthorized
    ELSE IF authz.token \notin DOMAIN tokens THEN Unauthorized
    ELSE Answer(0, "", tokens[authz.token])

\* principalFromContext, lines 65-68: the principals of the requests that reach
\* a handler.  With a token provider they are the ones requireAuth put into
\* the context; without one there is none.
Callers ==
    {requireAuth(staticTokens, auth, h).body :
        h \in {x \in Headers : requireAuth(staticTokens, auth, x).status = 0}}

\* A body that json.Decode rejects.
Malformed == [malformed |-> TRUE]

OwnerOf(vol) == IF vol = NoVolume THEN NoOwner ELSE vol.OwnerPrincipal

NotFound == Rejected(404, "not_found")
PrincipalMismatch == Rejected(403, "principal_mismatch")
InvalidPayload == Rejected(400, "invalid_payload")

(***************************************************************************)
(* The handlers up to their first writing store call, as functions of the  *)
(* maps and the request: the rejection, or Proceed.                        *)
(***************************************************************************)
\* handleCreateVolume, lines 114-137.
handleCreateVolumeCheck(au, caller, req) ==
    IF req = Malformed THEN InvalidPayload
    ELSE IF req.owner_principal = ""
         THEN IF au THEN Proceed ELSE Rejected(400, "missing_owner")
         ELSE IF au /\ req.owner_principal # caller THEN PrincipalMismatch
              ELSE Proceed

\* lines 127-129: the owner the record gets.
\* A handler that never substitutes the token's principal, to test what the
\* properties need of the owner rule.
CreateOwnerMutant(au, caller, req) == req.owner_principal
CreateOwner(au, caller, req) ==
    IF req.owner_principal = "" THEN caller ELSE req.owner_principal

\* handleListVolumes, lines 172-186: the volumes listed.
\* A handler that lists every volume whatever the mode, to test what the
\* properties need of the branch at line 180.
handleListVolumesMutant(vols, au, caller) ==
    Answer(200, "", ListVolumes(vols))
handleListVolumes(vols, au, caller) ==
    Answer(200, "", IF au THEN ListVolumesByOwner(vols, caller) ELSE ListVolumes(vols))

\* handleGetVolume, lines 188-212.
handleGetVolume(vols, au, caller, vid) ==
    LET v == GetVolume(vols, vid)
    IN  IF v = NoVolume THEN NotFound
        ELSE IF au /\ v.OwnerPrincipal # caller THEN PrincipalMismatch
        ELSE Answer(200, "", v)

\* lines 241-243: the principal the attach request ends up with.
AttachPrincipal(au, caller, req) ==
    IF req.principal = "" THEN caller ELSE req.principal

\* handleAttachVolume, lines 221-252.
\* A handler that does not compare the principal with the owner, to test what
\* the properties need of line 249.
handleAttachVolumeCheckMutant(vols, au, caller, vid, req) ==
    LET vol == GetVolume(vols, vid)
    IN  IF req = Malformed THEN InvalidPayload
        ELSE IF vol = NoVolume THEN NotFound
        ELSE IF req.principal = "" /\ ~au THEN Rejected(400, "missing_principal")
        ELSE Proceed
handleAttachVolumeCheck(vols, au, caller, vid, req) ==
    LET vol == GetVolume(vols, vid)
    IN  IF req = Malformed THEN InvalidPayload
        ELSE IF vol = NoVolume THEN NotFound
        ELSE IF req.principal = "" /\ ~au THEN Rejected(400, "missing_principal")
        ELSE IF AttachPrincipal(au, caller, req) # vol.OwnerPrincipal
             THEN PrincipalMismatch
        ELSE Proceed

\* handleDetachVolume, lines 280-305.
\* A handler that compares the owner also without a token provider, to test
\* what the properties need of line 296.
handleDetachVolumeCheckMutant(vols, au, caller, vid, req) ==
    LET vol == GetVolume(vols, vid)
    IN  IF req = Malformed THEN InvalidPayload
        ELSE IF vol = NoVolume THEN NotFound
        ELSE IF vol.OwnerPrincipal # caller THEN PrincipalMismatch
        ELSE Proceed
handleDetachVolumeCheck(vols, au, caller, vid, req) ==
    LET vol == GetVolume(vols, vid)
    IN  IF req = Malformed THEN InvalidPayload
        ELSE IF vol = NoVolume THEN NotFound
        ELSE IF au /\ vol.OwnerPrincipal # caller THEN PrincipalMismatch
        ELSE Proceed

\* handleDeleteVolume, lines 320-339: without a token provider the handler goes
\* straight to DeleteVolume.
handleDeleteVolumeCheck(vols, au, caller, vid) ==
    LET vol == GetVolume(vols, vid)
    IN  IF ~au THEN Proceed
        ELSE IF vol = NoVolume THEN NotFound
        ELSE IF vol.OwnerPrincipal # caller THEN PrincipalMismatch
        ELSE Proceed

\* handleCreateSnapshot, lines 376-401: the body is decoded last.
handleCreateSnapshotCheck(vols, au, caller, vid, req) ==
    LET vol == GetVolume(vols, vid)
    IN  IF vol = NoVolume THEN NotFound
        ELSE IF au /\ vol.OwnerPrincipal # caller THEN PrincipalMismatch
        ELSE IF req = Malformed THEN InvalidPayload
        ELSE Proceed

\* handleListSnapshots, lines 423-442.
handleListSnapshotsCheck(vols, au, caller, vid) ==
    LET vol == GetVolume(vols, vid)
    IN  IF vol = NoVolume THEN NotFound
        ELSE IF au /\ vol.OwnerPrincipal # caller THEN PrincipalMismatch
        ELSE Proceed

\* The variant answers an unknown volume as the other handlers do, to test
\* what the properties need of the answer.
CheckpointVolumeCheckMutant(vols, au, caller, vid) ==
    LET vol == GetVolume(vols, vid)
    IN  IF vol = NoVolume THEN NotFound
        ELSE IF au /\ vol.OwnerPrincipal # caller THEN PrincipalMismatch
        ELSE Proceed
\* handleCreateCheckpoint, lines 477-485: one volume id of the loop.
CheckpointVolumeCheck(vols, au, caller, vid) ==
    LET vol == GetVolume(vols, vid)
    IN  IF vol = NoVolume THEN Rejected(400, "invalid_volume")
        ELSE IF au /\ vol.OwnerPrincipal # caller THEN PrincipalMismatch
        ELSE Proceed

\* store.Snapshot as the handlers build it, lines 403-408 and 488-493.
NewSnapshot(id, vid, at, note) ==
    [SnapshotID |-> id, VolumeID |-> vid, CreatedAt |-> at, Note |-> note]

\* store.Checkpoint, lines 503-508.
NewCheckpoint(id, sids, at, note) ==
    [ManifestID |-> id, SnapshotIDs |-> sids, CreatedAt |-> at, Note |-> note]

\* A lookup that lets every snapshot id through, to test what the properties
\* need of the filter.
SnapshotAllowedMutant(owned, sn, sid) == {TRUE}
\* handleListCheckpoints, lines 537-541, for one snapshot id: TRUE when the
\* loop goes on to the next id, FALSE when it drops the manifest.  An id found
\* under no volume is let through.  VolumeIDForSnapshot returns the first
\* volume its map iteration meets with the id (store.go, lines 191-196), and
\* Go fixes no iteration order: for an id filed under several volumes each of
\* them can be the one returned, so the result is the set of the outcomes.
SnapshotAllowed(owned, sn, sid) ==
    LET found == VolumeIDsForSnapshot(sn, sid)
    IN  IF found = {} THEN {TRUE} ELSE {(vid \in owned) : vid \in found}

\* handleListCheckpoints, lines 529-549: the lists the filter can leave, one
\* for every way the lookups of the manifests' snapshot ids can turn out.  A
\* manifest is kept when each of its ids is let through.
VisibleCheckpoints(manifests, owned, sn) ==
    LET Outcomes(m, k) == SnapshotAllowed(owned, sn, m.SnapshotIDs[k])
        May(m)  == \A k \in 1 .. Len(m.SnapshotIDs) : TRUE \in Outcomes(m, k)
        Must(m) == \A k \in 1 .. Len(m.SnapshotIDs) : Outcomes(m, k) = {TRUE}
    IN  {kept \in SUBSET {m \in manifests : May(m)} :
            \A m \in manifests : Must(m) => m \in kept}

ListCheckpoints(cps) == {cps[id] : id \in DOMAIN cps}

\* handleListCheckpoints, lines 526-551, on one state of the maps: the
\* answers it can give.
handleListCheckpoints(manifests, vols, sn, au, caller) ==
    LET owned == {v.VolumeID : v \in ListVolumesByOwner(vols, caller)}
    IN  {Answer(200, "", body) :
            body \in IF au THEN VisibleCheckpoints(manifests, owned, sn)
                     ELSE {manifests}}

(***************************************************************************)
(* Requests answered within one step: nothing is written, so the step      *)
(* leaves every variable as it is.  What is answered is the value of the   *)
(* operator named in the guard.                                            *)
(***************************************************************************)
Answered(a) == a.status # 0 /\ UNCHANGED vars

\* requireAuth turns the request away: 401, and no handler runs.
RejectUnauthorized(p) ==
    /\ Idle(p)
    /\ \E h \in Headers :
          /\ requireAuth(staticTokens, auth, h).status # 0
          /\ Send
          /\ Reply(p, requireAuth(staticTokens, auth, h))
    /\ UNCHANGED <<envVars, memVars, mu, idVars, diskVars>>

CreateRequestBodies   == CreateRequests \cup {Malformed}
AttachRequestBodies   == AttachRequests \cup {Malformed}
DetachRequestBodies   == {[session_id |-> ""], Malformed}
SnapshotRequestBodies == SnapshotRequests \cup {Malformed}

CreateVolumeRejected(p) ==
    /\ Idle(p)
    /\ \E caller \in Callers, req \in CreateRequestBodies :
          Answered(handleCreateVolumeCheck(auth, caller, req))

ListVolumesReq(p) ==
    /\ Idle(p) /\ mu = NoProc
    /\ \E caller \in Callers : Answered(handleListVolumes(volumes, auth, caller))

\* handleListVolumes, lines 173-185, with the response written out: the one
\* store call it makes and respondJSON.
ListVolumesCall(p) ==
    /\ Idle(p) /\ mu = NoProc
    /\ \E caller \in Callers :
          LET a == handleListVolumes(volumes, auth, caller)
          IN  /\ Send
              /\ resp' = [NoResp EXCEPT !.op = "list_volumes", !.caller = caller,
                                        !.status = a.status, !.code = a.code,
                                        !.body = a.body]
    /\ UNCHANGED <<envVars, memVars, mu, procs, idVars, diskVars>>

GetVolumeReq(p) ==
    /\ Idle(p) /\ mu = NoProc
    /\ \E caller \in Callers, vid \in VolIDs :
          Answered(handleGetVolume(volumes, auth, caller, vid))

AttachRejected(p) ==
    /\ Idle(p) /\ mu = NoProc
    /\ \E caller \in Callers, vid \in VolIDs, req \in AttachRequestBodies :
          Answered(handleAttachVolumeCheck(volumes, auth, caller, vid, req))

DetachRejected(p) ==
    /\ Idle(p) /\ mu = NoProc
    /\ \E caller \in Callers, vid \in VolIDs, req \in DetachRequestBodies :
          Answered(handleDetachVolumeCheck(volumes, auth, caller, vid, req))

DeleteRejected(p) ==
    /\ Idle(p) /\ mu = NoProc
    /\ \E caller \in Callers, vid \in VolIDs :
          Answered(handleDeleteVolumeCheck(volumes, auth, caller, vid))

SnapshotRejected(p) ==
    /\ Idle(p) /\ mu = NoProc
    /\ \E caller \in Callers, vid \in VolIDs, req \in SnapshotRequestBodies :
          Answered(handleCreateSnapshotCheck(volumes, auth, caller, vid, req))

ListSnapshotsRejected(p) ==
    /\ Idle(p) /\ mu = NoProc
    /\ \E caller \in Callers, vid \in VolIDs :
          Answered(handleListSnapshotsCheck(volumes, auth, caller, vid))

\* handleCreateCheckpoint, lines 455-459.
CheckpointRejected(p) ==
    /\ Idle(p)
    /\ Answered(InvalidPayload)

(***************************************************************************)
(* Volume handlers that go on to PutVolume or DeleteVolume.                *)
(***************************************************************************)
Begin(p, op, caller, vid, vol, pc, val) ==
    /\ Send
    /\ procs' = [procs EXCEPT ![p] =
                    [IdleProc EXCEPT !.pc = pc, !.op = op, !.caller = caller,
                                     !.vid = vid, !.owner = OwnerOf(vol),
                                     !.val = val]]

\* handleCreateVolume, lines 138-163: the record under the id the uuid gave,
\* and PutVolume's lock, stamp and upsert (lines 134-147); flushLocked is
\* next.  nextVol counts the ids generated.
CreateVolumeWith(p, id) ==
    /\ Idle(p) /\ LockFree
    /\ nextVol <= MaxVols
    /\ \E caller \in Callers, req \in CreateRequests :
          LET v == NewVolume(id, CreateOwner(auth, caller, req), req.class,
                             req.quota_bytes, req.policy_profile, req.export_mode)
          IN  /\ handleCreateVolumeCheck(auth, caller, req) = Proceed
              /\ Send
              /\ volumes' = PutVolumeMem(volumes, v, now)
              /\ procs' = [procs EXCEPT ![p] =
                              [IdleProc EXCEPT !.pc = "fl_open", !.op = "create",
                                   !.caller = caller, !.vid = id,
                                   !.req = req,
                                   !.val = StampVolume(volumes, v, now),
                                   !.call = "PutVolume"]]
    /\ mu' = p
    /\ nextVol' = nextVol + 1
    /\ UNCHANGED <<envVars, snaps, cp, resp, nextSnap, nextCp, diskVars>>

\* line 145, "vol-" + uuid.NewString()[:8], when the eight hex digits are ones
\* no earlier call drew.
CreateVolume(p) == CreateVolumeWith(p, nextVol)

\* line 145 with any eight hex digits the uuid can give, those of a volume in
\* the registry among them: the handler does not look the id up.
CreateVolumeDrawn(p) == \E id \in VolIDs : CreateVolumeWith(p, id)

\* handleAttachVolume, lines 232-253: GetVolume and the checks; the handler
\* keeps the record it was given.
AttachGet(p) ==
    /\ Idle(p) /\ mu = NoProc
    /\ \E caller \in Callers, vid \in VolIDs, req \in AttachRequests :
          /\ handleAttachVolumeCheck(volumes, auth, caller, vid, req) = Proceed
          /\ Send
          /\ procs' = [procs EXCEPT ![p] =
                [IdleProc EXCEPT
                    !.pc = "att_now", !.op = "attach", !.caller = caller,
                    !.vid = vid, !.owner = OwnerOf(volumes[vid]), !.req = req,
                    !.val = volumes[vid]]]
    /\ UNCHANGED <<envVars, memVars, mu, resp, idVars, diskVars>>

\* handleAttachVolume, lines 254-264: the edit of the record, with the session
\* id of the request or a generated one and with time.Now() of line 263, read
\* when the handler gets there.
AttachNow(p) ==
    /\ Up /\ procs[p].pc = "att_now"
    /\ LET req == procs[p].req
       IN  procs' = [procs EXCEPT
                ![p].pc = "put",
                ![p].val = AttachEdit(procs[p].val,
                                      IF req.session_id = "" THEN GeneratedSessionID
                                      ELSE req.session_id,
                                      AttachPrincipal(auth, procs[p].caller, req),
                                      req.consumer_endpoint, now)]
    /\ UNCHANGED <<envVars, memVars, mu, resp, idVars, left, diskVars>>

\* handleDetachVolume, lines 286-309.
\* A detach that stores the record without its owner, to test what the
\* properties need of the edit.
DetachGetMutant(p) ==
    /\ Idle(p) /\ mu = NoProc
    /\ \E caller \in Callers, vid \in VolIDs :
          /\ handleDetachVolumeCheck(volumes, auth, caller, vid, [session_id |-> ""])
                = Proceed
          /\ Begin(p, "detach", caller, vid, volumes[vid], "put",
                   [DetachEdit(volumes[vid]) EXCEPT !.OwnerPrincipal = NoPrincipal])
    /\ UNCHANGED <<envVars, memVars, mu, resp, idVars, diskVars>>
DetachGet(p) ==
    /\ Idle(p) /\ mu = NoProc
    /\ \E caller \in Callers, vid \in VolIDs :
          /\ handleDetachVolumeCheck(volumes, auth, caller, vid, [session_id |-> ""])
                = Proceed
          /\ Begin(p, "detach", caller, vid, volumes[vid], "put",
                   DetachEdit(volumes[vid]))
    /\ UNCHANGED <<envVars, memVars, mu, resp, idVars, diskVars>>

\* PutVolume, lines 134-147: lock, stamp, upsert; flushLocked is next.
PutVolumeCall(p) ==
    /\ Up /\ LockFree /\ procs[p].pc = "put"
    /\ mu' = p
    /\ volumes' = PutVolumeMem(volumes, procs[p].val, now)
    /\ procs' = [procs EXCEPT ![p].pc = "fl_open",
                              ![p].val = StampVolume(volumes, procs[p].val, now),
                              ![p].call = "PutVolume"]
    /\ UNCHANGED <<envVars, snaps, cp, resp, idVars, left, diskVars>>

\* handleDeleteVolume, lines 320-339.
DeleteCheck(p) ==
    /\ Idle(p) /\ mu = NoProc
    /\ \E caller \in Callers, vid \in VolIDs :
          /\ handleDeleteVolumeCheck(volumes, auth, caller, vid) = Proceed
          /\ Begin(p, "delete", caller, vid, GetVolume(volumes, vid), "del", NoVolume)
    /\ UNCHANGED <<envVars, memVars, mu, resp, idVars, diskVars>>

\* DeleteVolume, lines 224-232, and lines 341-348 when it finds no volume.
DeleteVolumeCall(p) ==
    /\ Up /\ LockFree /\ procs[p].pc = "del"
    /\ IF procs[p].vid \in DOMAIN volumes
       THEN LET r == DeleteVolumeMem(volumes, snaps, procs[p].vid)
            IN  /\ mu' = p
                /\ volumes' = r.volumes
                /\ snaps' = r.snaps
                /\ procs' = [procs EXCEPT ![p].pc = "fl_open",
                                          ![p].call = "DeleteVolume"]
                /\ UNCHANGED resp
       ELSE /\ Reply(p, NotFound)
            /\ UNCHANGED <<volumes, snaps, mu>>
    /\ UNCHANGED <<envVars, cp, idVars, left, diskVars>>

(***************************************************************************)
(* Snapshots and checkpoints.                                              *)
(***************************************************************************)
\* handleCreateSnapshot, lines 383-408: GetVolume, the checks, the record.
SnapshotGet(p) ==
    /\ Idle(p) /\ mu = NoProc
    /\ nextSnap <= MaxSnaps
    /\ \E caller \in Callers, vid \in VolIDs, req \in SnapshotRequests :
          /\ handleCreateSnapshotCheck(volumes, auth, caller, vid, req) = Proceed
          /\ Begin(p, "snapshot", caller, vid, volumes[vid], "snap_add",
                   NewSnapshot(nextSnap, vid, now, req.note))
    /\ nextSnap' = nextSnap + 1
    /\ UNCHANGED <<envVars, memVars, mu, resp, nextVol, nextCp, diskVars>>

\* AddSnapshot, lines 155-162; and what each handler answers when it returns
\* ErrVolumeNotFound (lines 411-414, lines 494-497).
AddSnapshotCall(p) ==
    /\ Up /\ LockFree /\ procs[p].pc \in {"snap_add", "cp_add"}
    /\ LET vid == procs[p].val.VolumeID
       IN  IF AddSnapshotKnown(volumes, vid)
           THEN /\ mu' = p
                /\ snaps' = AddSnapshotMem(snaps, vid, procs[p].val)
                /\ procs' = [procs EXCEPT ![p].pc = "fl_open",
                                          ![p].call = "AddSnapshot"]
                /\ UNCHANGED resp
           ELSE /\ Reply(p, IF procs[p].op = "snapshot" THEN NotFound ELSE StoreError)
                /\ UNCHANGED <<snaps, mu>>
    /\ UNCHANGED <<envVars, volumes, cp, idVars, left, diskVars>>

\* handleListSnapshots, lines 430-442.
ListSnapshotsGet(p) ==
    /\ Idle(p) /\ mu = NoProc
    /\ \E caller \in Callers, vid \in VolIDs :
          /\ handleListSnapshotsCheck(volumes, auth, caller, vid) = Proceed
          /\ Begin(p, "list_snapshots", caller, vid, volumes[vid], "ls_list", NoVolume)
    /\ UNCHANGED <<envVars, memVars, mu, resp, idVars, diskVars>>

\* lines 444-445.
ListSnapshotsList(p) ==
    /\ Up /\ mu = NoProc /\ procs[p].pc = "ls_list"
    /\ Reply(p, Answer(200, "", ListSnapshots(snaps, procs[p].vid)))
    /\ UNCHANGED <<envVars, memVars, mu, idVars, left, diskVars>>

VolumeIDsOf(vs) == {v.VolumeID : v \in vs}

\* handleCreateCheckpoint, lines 461-475: the volume ids of the request, or,
\* when it names none, those of ListVolumesByOwner / ListVolumes in the order
\* the map iteration gave them.
CheckpointStart(p) ==
    /\ Idle(p) /\ mu = NoProc
    /\ nextCp <= MaxCps
    /\ \E caller \in Callers, req \in CheckpointRequests :
          \E ids \in IF Len(req.volume_ids) # 0 THEN {req.volume_ids}
                     ELSE Orders(VolumeIDsOf(handleListVolumes(volumes, auth, caller).body)) :
             /\ Send
             /\ procs' = [procs EXCEPT ![p] =
                             [IdleProc EXCEPT !.op = "checkpoint", !.caller = caller,
                                  !.note = req.note, !.named = req.volume_ids,
                                  !.ids = ids, !.i = 1,
                                  !.pc = IF Len(ids) = 0 THEN "cp_put" ELSE "cp_get"]]
    /\ UNCHANGED <<envVars, memVars, mu, resp, idVars, diskVars>>

\* lines 477-485.
CheckpointGet(p) ==
    /\ Up /\ mu = NoProc /\ procs[p].pc = "cp_get"
    /\ LET pr == procs[p]
           vid == pr.ids[pr.i]
           a == CheckpointVolumeCheck(volumes, auth, pr.caller, vid)
       IN  IF a = Proceed
           THEN /\ procs' = [procs EXCEPT ![p].pc = "cp_latest", ![p].vid = vid,
                                          ![p].owner = OwnerOf(volumes[vid])]
                /\ UNCHANGED resp
           ELSE Reply(p, a)
    /\ UNCHANGED <<envVars, memVars, mu, idVars, left, diskVars>>

\* lines 486-493: LatestSnapshot; without one, the record for AddSnapshot.
CheckpointLatest(p) ==
    /\ Up /\ mu = NoProc /\ procs[p].pc = "cp_latest"
    /\ LET pr == procs[p]
           latest == LatestSnapshot(snaps, pr.vid)
       IN  IF latest = NoSnapshot
           THEN /\ nextSnap <= MaxSnaps
                /\ procs' = [procs EXCEPT ![p].pc = "cp_add",
                                ![p].val = NewSnapshot(nextSnap, pr.vid, now, autoNote)]
                /\ nextSnap' = nextSnap + 1
           ELSE /\ procs' = [procs EXCEPT ![p] = CheckpointAdvance(pr, latest.SnapshotID)]
                /\ UNCHANGED nextSnap
    /\ UNCHANGED <<envVars, memVars, mu, resp, nextVol, nextCp, left, diskVars>>

\* lines 503-510 and PutCheckpoint, lines 202-205.
CheckpointPut(p) ==
    /\ Up /\ LockFree /\ procs[p].pc = "cp_put"
    /\ LET manifest == NewCheckpoint(nextCp, procs[p].out, now, procs[p].note)
       IN  /\ cp' = PutCheckpointMem(cp, manifest)
           /\ procs' = [procs EXCEPT ![p].pc = "fl_open", ![p].val = manifest,
                                     ![p].call = "PutCheckpoint"]
    /\ mu' = p
    /\ nextCp' = nextCp + 1
    /\ UNCHANGED <<envVars, volumes, snaps, resp, nextVol, nextSnap, left, diskVars>>

\* handleListCheckpoints, line 526: ListCheckpoints; without a token provider
\* that is all.  With one, the locals of the filter are todo (the manifests
\* not yet looked at), owned, cur and k (the manifest whose ids are being
\* looked up, if any, and the index of the next id) and allowed; gone is for
\* the record: the volumes that were deleted when the request came in.
ListCheckpointsReq(p) ==
    /\ Idle(p) /\ RLockFree
    /\ IF auth
       THEN \E caller \in Callers :
               /\ Send
               /\ procs' = [procs EXCEPT ![p] =
                               [IdleProc EXCEPT !.op = "list_checkpoints",
                                    !.caller = caller, !.pc = "lc_owned",
                                    !.val = [todo |-> ListCheckpoints(cp),
                                             owned |-> {}, cur |-> {}, k |-> 0,
                                             allowed |-> {},
                                             gone |-> {vid \in VolIDs :
                                                         WasDeleted(vid)}]]]
               /\ UNCHANGED <<envVars, memVars, mu, resp, idVars, diskVars>>
       ELSE \E a \in handleListCheckpoints(ListCheckpoints(cp), volumes, snaps,
                                           auth, NoPrincipal) : Answered(a)

\* lines 535-549 between two store calls: the filter, with locals st, goes on
\* to its next VolumeIDForSnapshot; when no manifest with an id to look up is
\* left, the manifests without snapshot ids pass and line 551 answers.
ListCheckpointsGo(p, st) ==
    IF st.cur = {} /\ \A m \in st.todo : Len(m.SnapshotIDs) = 0
    THEN Reply(p, Answer(200, "", st.allowed \cup st.todo))
    ELSE /\ procs' = [procs EXCEPT ![p].pc = "lc_lookup", ![p].val = st]
         /\ resp' = resp

\* lines 530-533: ListVolumesByOwner, a read section of its own.
ListCheckpointsOwned(p) ==
    /\ Up /\ RLockFree /\ procs[p].pc = "lc_owned"
    /\ ListCheckpointsGo(p,
          [procs[p].val EXCEPT
              !.owned = {v.VolumeID :
                           v \in ListVolumesByOwner(volumes, procs[p].caller)}])
    /\ UNCHANGED <<envVars, memVars, mu, idVars, left, diskVars>>

\* lines 535-548: one VolumeIDForSnapshot, a read section of its own, for the
\* next id of the manifest at hand or the first id of another one (the slice
\* of ListCheckpoints is in map order), and what lines 538-546 do with it.
ListCheckpointsLookup(p) ==
    /\ Up /\ RLockFree /\ procs[p].pc = "lc_lookup"
    /\ LET st == procs[p].val
       IN  \E m \in IF st.cur # {} THEN st.cur
                     ELSE {x \in st.todo : Len(x.SnapshotIDs) > 0} :
             LET k    == IF st.cur # {} THEN st.k ELSE 1
                 done == [st EXCEPT !.todo = @ \ {m}, !.cur = {}, !.k = 0]
             IN  \E ok \in SnapshotAllowed(st.owned, snaps, m.SnapshotIDs[k]) :
                    ListCheckpointsGo(p,
                       IF ~ok THEN done
                       ELSE IF k = Len(m.SnapshotIDs)
                            THEN [done EXCEPT !.allowed = @ \cup {m}]
                            ELSE [st EXCEPT !.todo = @ \ {m}, !.cur = {m},
                                            !.k = k + 1])
    /\ UNCHANGED <<envVars, memVars, mu, idVars, left, diskVars>>

\* GetVolume, lines 122-124: RLock and the lookup; the deferred RUnlock is
\* next.  (handleGetVolume, line 190.)
GetVolumeRLock(p) ==
    /\ Idle(p) /\ RLockFree
    /\ \E caller \in Callers, vid \in VolIDs :
          Begin(p, "get", caller, vid, GetVolume(volumes, vid), "rlocked",
                GetVolume(volumes, vid))
    /\ UNCHANGED <<envVars, memVars, mu, resp, idVars, diskVars>>

\* GetVolume, lines 125-129: the return and the deferred RUnlock; then
\* handleGetVolume, lines 191-211, answers with what the call returned.
GetVolumeRUnlock(p) ==
    /\ Up /\ procs[p].pc = "rlocked"
    /\ Reply(p, handleGetVolume(IF procs[p].val = NoVolume THEN EmptyMap
                                ELSE MapPut(EmptyMap, procs[p].vid, procs[p].val),
                                auth, procs[p].caller, procs[p].vid))
    /\ UNCHANGED <<envVars, memVars, mu, idVars, left, diskVars>>

\* The response has gone out on the connection.
Deliver ==
    /\ resp # NoResp
    /\ resp' = NoResp
    /\ UNCHANGED <<envVars, memVars, mu, procs, idVars, left, diskVars>>

(***************************************************************************)
(* Specifications.                                                         *)
(***************************************************************************)
ReadHandler(p) ==
    \/ RejectUnauthorized(p)
    \/ ListVolumesReq(p)
    \/ GetVolumeReq(p)

VolumeHandler(p) ==
    \/ CreateVolumeRejected(p)
    \/ CreateVolume(p)
    \/ AttachRejected(p)
    \/ AttachGet(p)
    \/ AttachNow(p)
    \/ DetachRejected(p)
    \/ DetachGet(p)
    \/ PutVolumeCall(p)
    \/ DeleteRejected(p)
    \/ DeleteCheck(p)
    \/ DeleteVolumeCall(p)

CatalogHandler(p) ==
    \/ SnapshotRejected(p)
    \/ SnapshotGet(p)
    \/ AddSnapshotCall(p)
    \/ ListSnapshotsRejected(p)
    \/ ListSnapshotsGet(p)
    \/ ListSnapshotsList(p)
    \/ CheckpointRejected(p)
    \/ CheckpointStart(p)
    \/ CheckpointGet(p)
    \/ CheckpointLatest(p)
    \/ CheckpointPut(p)
    \/ ListCheckpointsReq(p)
    \/ ListCheckpointsOwned(p)
    \/ ListCheckpointsLookup(p)

Flush(p) ==
    \/ FlushOpen(p)
    \/ FlushEncode(p)
    \/ FlushClose(p)
    \/ FlushRename(p)

\* The volume lifecycle under concurrent requests.
Next ==
    \/ Start
    \/ Deliver
    \/ \E p \in Procs : ReadHandler(p)
    \/ \E p \in Procs : VolumeHandler(p)
    \/ \E p \in Procs : Flush(p)

Spec == Init /\ [][Next]_vars

\* Snapshots and checkpoints under concurrent requests, with the volumes
\* created and deleted beside them; the clients send MaxCatalogReqs requests.
CatalogVolumeHandler(p) ==
    \/ CreateVolume(p)
    \/ DeleteCheck(p)
    \/ DeleteVolumeCall(p)

NextCatalog ==
    \/ Start
    \/ Deliver
    \/ \E p \in Procs : CatalogVolumeHandler(p)
    \/ \E p \in Procs : CatalogHandler(p)
    \/ \E p \in Procs : Flush(p)

InitCatalog == InitWith(MaxCatalogReqs)

SpecCatalog == InitCatalog /\ [][NextCatalog]_vars

\* Every handler, one request at a time, with the process killed or shut down
\* at any point and I/O errors in flushLocked; the clients send MaxReqs
\* requests.
CrashProcs == {"p1"}

InitCrash == InitWith(MaxReqs)

NextCrash ==
    \/ Start
    \/ Crash
    \/ CloseBegin
    \/ Exit
    \/ Deliver
    \/ \E p \in CrashProcs : ReadHandler(p)
    \/ \E p \in CrashProcs : VolumeHandler(p)
    \/ \E p \in CrashProcs : CatalogHandler(p)
    \/ \E p \in CrashProcs \cup {Main} : Flush(p)
    \/ \E p \in CrashProcs \cup {Main} : FlushFail(p)

SpecCrash == InitCrash /\ [][NextCrash]_vars

(***************************************************************************)
(* Properties.                                                             *)
(***************************************************************************)
Succeeded(r) == r.status \in {200, 201, 204}

\* C1: every volume in the registry has a non-null attach_session if and only
\* if its attach_state is "attached", in every reachable state of the volume
\* lifecycle (create, attach, detach, re-attach, repeated detach, interleaved).
AttachSessionIffAttached ==
    \A id \in DOMAIN volumes :
        (volumes[id].AttachSession # NoSession)
            <=> (volumes[id].AttachState = mountStateAttached)

\* A detach of a volume that was already available (as last flushed) has put
\* its record and is about to rename, while another volume is attached with a
\* session.
AttachSessionIffAttachedWitness ==
    \E p \in Procs :
        /\ procs[p].op = "detach" /\ procs[p].pc = "fl_rename"
        /\ procs[p].vid \in DOMAIN committed.volumes
        /\ committed.volumes[procs[p].vid].AttachState = mountStateAvailable
        /\ volumes[procs[p].vid].AttachState = mountStateAvailable
        /\ volumes[procs[p].vid].AttachSession = NoSession
        /\ \E id \in DOMAIN volumes :
              /\ volumes[id].AttachState = mountStateAttached
              /\ volumes[id].AttachSession # NoSession

\* C2: with a token provider, an attach, detach, delete or add-snapshot request
\* that succeeds was sent by the owner of the volume it acted on.
OwnershipEnforced ==
    (auth /\ resp.op \in {"attach", "detach", "delete", "snapshot"} /\ Succeeded(resp))
        => resp.caller = resp.owner

\* C7: the volume a successful create-volume request answers with, which is
\* the volume then in the registry, is available and has no attach session.
CreatedVolumeAvailable ==
    (resp.op = "create" /\ resp.status = 201) =>
        /\ resp.vid \in DOMAIN volumes
        /\ volumes[resp.vid] = resp.body
        /\ resp.body.AttachState = mountStateAvailable
        /\ resp.body.MountHandle.State = mountStateAvailable
        /\ resp.body.AttachSession = NoSession

\* A second volume has just been created while the first one is attached.
CreatedVolumeAvailableWitness ==
    /\ resp.op = "create" /\ resp.status = 201
    /\ \E id \in DOMAIN volumes :
          id # resp.vid /\ volumes[id].AttachState = mountStateAttached

\* The state file as load would read it.
Disk == LoadFile(files[statePath])

\* C3: the canonical state file is absent, or holds completely the state of
\* the last flush that renamed; never a truncated or partial file, whatever
\* step of flushLocked a crash or an I/O error fell on.
CanonicalFileComplete ==
    \/ files[statePath] = Absent
    \/ files[statePath] =
          JSONFile(EncodeState(committed.volumes, committed.snaps, committed.cp))

\* The process was killed after flushLocked had opened (truncated) or written
\* the temporary file and before the rename, with an earlier flushed state
\* that holds a volume in the canonical file.
CanonicalFileCompleteWitness ==
    /\ srv = "down" /\ boots >= 1
    /\ files[TmpPathOf(statePath)] # Absent
    /\ files[statePath] # Absent
    /\ DOMAIN committed.volumes # {}

MutatingOps == {"create", "attach", "detach", "delete", "snapshot", "checkpoint"}

\* What the state file holds of the operation that response r reports.
EffectOnDisk(r) ==
    LET d == Disk.state
    IN  /\ Disk.ok
        /\ CASE r.op \in {"create", "attach", "detach"} ->
                   r.vid \in DOMAIN d.volumes /\ d.volumes[r.vid] = r.body
             [] r.op = "delete" -> r.vid \notin DOMAIN d.volumes
             [] r.op = "snapshot" ->
                   /\ r.vid \in DOMAIN d.snaps
                   /\ r.body \in Range(d.snaps[r.vid])
             [] r.op = "checkpoint" ->
                   /\ r.body.ManifestID \in DOMAIN d.cp
                   /\ d.cp[r.body.ManifestID] = r.body
                   /\ \A k \in 1 .. Len(r.body.SnapshotIDs) :
                         VolumeIDsForSnapshot(d.snaps, r.body.SnapshotIDs[k]) # {}

SuccessIsFlushed ==
    (resp.op \in MutatingOps /\ Succeeded(resp)) => EffectOnDisk(resp)

\* C4: when a mutating operation answers with success, the canonical file
\* already holds its effect; and the step on which a flush fails in a request
\* answers that request with 500 store_error.
WriteThrough ==
    [][ /\ SuccessIsFlushed'
        /\ (faults' # faults /\ mu \in Procs) =>
              (resp'.status = 500 /\ resp'.code = "store_error"
               /\ resp'.op \in MutatingOps) ]_vars

\* An attach has answered 200 after an earlier request had its flush fail.
WriteThroughWitness ==
    /\ resp.op = "attach" /\ resp.status = 200
    /\ faults = 1
    /\ EffectOnDisk(resp)

\* C5: whenever the process is up and no writer holds the lock, the state
\* file and the maps in memory hold the same state.
DiskEqualsMemory ==
    (srv = "up" /\ mu = NoProc) => (Disk.ok /\ Disk.state = Mem)

\* C6: a start of the process (the first, one after a shutdown, one after a
\* crash at any point) loads without error, and the maps it loads are those of
\* the last flush that renamed.
ReloadIsLastFlush ==
    [][ srv = "down" =>
          /\ srv' \in {"down", "up"}
          /\ srv' = "up" => /\ volumes' = committed.volumes
                            /\ snaps' = committed.snaps
                            /\ cp' = committed.cp ]_vars

\* The process was killed in a flush (the temporary file is still there) and
\* has started again; nothing has been written since, and the maps hold the
\* attached volume, session included, that the last flush had written.
ReloadIsLastFlushWitness ==
    /\ srv = "up" /\ boots = 2 /\ faults = 0
    /\ \A p \in AllProcs : procs[p].pc = "idle"
    /\ files[TmpPathOf(statePath)] # Absent
    /\ Mem = committed
    /\ \E id \in DOMAIN volumes : volumes[id].AttachSession # NoSession

\* The goroutines whose AddSnapshot is what changes snaps on this step.
Appending(p) == procs[p].pc \in {"snap_add", "cp_add"}

\* C8: a volume's snapshot list changes only by AddSnapshot putting its
\* snapshot after all those already there, so the list is in append order;
\* LatestSnapshot is then that snapshot, and it is always the last of the list
\* (none for an empty list); an append to one volume leaves the lists of the
\* others as they were.
SnapshotOrdering ==
    [][ \A vid \in VolIDs :
          LET old == ListSnapshots(snaps, vid)
              new == ListSnapshots(snaps', vid)
          IN  /\ LatestSnapshot(snaps', vid) =
                    (IF Len(new) = 0 THEN NoSnapshot ELSE Last(new))
              /\ new # old =>
                    \E p \in Procs :
                        /\ Appending(p)
                        /\ procs[p].val.VolumeID = vid
                        /\ new = Append(old, procs[p].val)
                        /\ LatestSnapshot(snaps', vid) = procs[p].val
                        /\ \A other \in VolIDs \ {vid} :
                              ListSnapshots(snaps', other) = ListSnapshots(snaps, other)
      ]_vars

\* A snapshot has just been added to one volume, and is its latest, while the
\* other volume has a snapshot list of its own.
SnapshotOrderingWitness ==
    /\ resp.op = "snapshot" /\ resp.status = 201
    /\ LatestSnapshot(snaps, resp.vid) = resp.body
    /\ \E other \in DOMAIN snaps : other # resp.vid /\ Len(snaps[other]) > 0

\* C9: while the process runs, every step leaves each volume's snapshot list
\* a prefix of what it is afterwards: nothing is removed, reordered or
\* changed, by DeleteVolume or anything else.
SnapshotsAppendOnly ==
    [][ (srv = "up" /\ srv' = "up") =>
          \A vid \in DOMAIN snaps :
              /\ vid \in DOMAIN snaps'
              /\ IsPrefix(snaps[vid], snaps'[vid]) ]_vars

\* A volume has been deleted and its snapshot list is still there.
SnapshotsAppendOnlyWitness ==
    /\ resp.op = "delete" /\ resp.status = 204
    /\ resp.vid \notin DOMAIN volumes
    /\ resp.vid \in DOMAIN snaps
    /\ Len(snaps[resp.vid]) > 0

AutoSnapshots(vid) ==
    {i \in 1 .. Len(snaps[vid]) : snaps[vid][i].Note = autoNote}

\* C10: no volume has more than one snapshot that a checkpoint generated.
AtMostOneAutoSnapshot ==
    \A vid \in DOMAIN snaps : Cardinality(AutoSnapshots(vid)) <= 1

\* The snapshot ids filed under volume vid.
SnapshotIDsOf(sn, vid) ==
    {ListSnapshots(sn, vid)[j].SnapshotID : j \in 1 .. Len(ListSnapshots(sn, vid))}

\* The goroutines that have stored their manifest and are flushing it: the
\* rename that ends the flush answers 201 with that manifest.
StoringManifest(p) ==
    /\ procs[p].op = "checkpoint"
    /\ procs[p].call = "PutCheckpoint"
    /\ procs[p].pc \in {"fl_open", "fl_encode", "fl_close", "fl_rename"}

\* C11: the manifest a checkpoint request stores has one snapshot id per
\* volume id of the list it worked through, in that order, repeated ids
\* included: entry k is the id of a snapshot of the k-th volume.
ManifestInRequestOrder ==
    \A p \in Procs :
        StoringManifest(p) =>
            LET m == procs[p].val
            IN  /\ m.ManifestID \in DOMAIN cp /\ cp[m.ManifestID] = m
                /\ Len(m.SnapshotIDs) = Len(procs[p].ids)
                /\ \A k \in 1 .. Len(procs[p].ids) :
                      m.SnapshotIDs[k] \in SnapshotIDsOf(snaps, procs[p].ids[k])

\* A request that names volume 2 before volume 1 is about to answer with a
\* manifest of two different snapshots.
ManifestInRequestOrderWitness ==
    \E p \in Procs :
        /\ StoringManifest(p) /\ procs[p].pc = "fl_rename"
        /\ procs[p].ids = <<2, 1>>
        /\ procs[p].val.SnapshotIDs[1] # procs[p].val.SnapshotIDs[2]

\* C12: when PutCheckpoint has just stored a manifest, each of its snapshot
\* ids is that of the latest snapshot of the volume it was taken for.
ManifestHoldsLatest ==
    \A p \in Procs :
        (StoringManifest(p) /\ procs[p].pc = "fl_open") =>
            \A k \in 1 .. Len(procs[p].ids) :
                /\ LatestSnapshot(snaps, procs[p].ids[k]) # NoSnapshot
                /\ procs[p].val.SnapshotIDs[k] =
                      LatestSnapshot(snaps, procs[p].ids[k]).SnapshotID

\* The ids of the volumes the caller of a request may see: its own with a
\* token provider, all of them without.
VisibleVolumeIDs(caller) ==
    {id \in DOMAIN volumes : auth => volumes[id].OwnerPrincipal = caller}

\* C13: with requests served one at a time, the manifest stored for a
\* checkpoint request that named no volume has exactly one snapshot id for
\* each volume the caller owns (with a token provider) or for each volume of
\* the registry (without), and none besides.
CheckpointDefaultsToVisible ==
    \A p \in Procs :
        (StoringManifest(p) /\ procs[p].named = <<>>) =>
            LET m == procs[p].val
                ids == procs[p].ids
            IN  /\ Range(ids) = VisibleVolumeIDs(procs[p].caller)
                /\ Len(ids) = Cardinality(VisibleVolumeIDs(procs[p].caller))
                /\ Len(m.SnapshotIDs) = Len(ids)
                /\ \A k \in 1 .. Len(ids) :
                      m.SnapshotIDs[k] \in SnapshotIDsOf(snaps, ids[k])

\* With a token provider and two volumes of different owners, a request that
\* named no volume has stored a manifest of one snapshot, generated for the
\* caller's volume.
CheckpointDefaultsToVisibleWitness ==
    \E p \in Procs :
        /\ StoringManifest(p) /\ procs[p].named = <<>>
        /\ auth
        /\ Cardinality(DOMAIN volumes) = 2
        /\ Len(procs[p].val.SnapshotIDs) = 1
        /\ \E vid \in DOMAIN snaps :
              /\ volumes[vid].OwnerPrincipal = procs[p].caller
              /\ Len(snaps[vid]) = 1
              /\ snaps[vid][1].Note = autoNote
              /\ snaps[vid][1].SnapshotID = procs[p].val.SnapshotIDs[1]

\* C14: with requests served one at a time, the step of the checkpoint loop
\* that looks at the i-th volume id answers 400 invalid_volume when the id is
\* unknown, else 403 principal_mismatch when there is a token provider and the
\* volume is not the caller's, else goes on; every id before the i-th was
\* known and the caller's, so the first failing id decides the answer.
CheckpointFirstFailure ==
    [][ \A p \in Procs :
          (procs[p].pc = "cp_get" /\ procs'[p].pc # "cp_get" /\ srv' = "up") =>
             LET pr == procs[p]
                 vid == pr.ids[pr.i]
                 Passes(id) == /\ id \in DOMAIN volumes
                               /\ auth => volumes[id].OwnerPrincipal = pr.caller
             IN  /\ \A k \in 1 .. pr.i - 1 : Passes(pr.ids[k])
                 /\ IF vid \notin DOMAIN volumes
                    THEN /\ resp'.op = "checkpoint"
                         /\ resp'.status = 400 /\ resp'.code = "invalid_volume"
                    ELSE IF auth /\ volumes[vid].OwnerPrincipal # pr.caller
                    THEN /\ resp'.op = "checkpoint"
                         /\ resp'.status = 403 /\ resp'.code = "principal_mismatch"
                    ELSE /\ resp' = NoResp
                         /\ procs'[p].pc = "cp_latest" ]_vars

\* A request has been answered 403 principal_mismatch for its second volume
\* id, after its first one, the caller's own volume, had passed.
CheckpointFirstFailureWitness ==
    /\ auth
    /\ resp.op = "checkpoint" /\ resp.status = 403
    /\ resp.code = "principal_mismatch"
    /\ resp.vid \in DOMAIN volumes
    /\ volumes[resp.vid].OwnerPrincipal = resp.caller

(***************************************************************************)
(* The daemon restarted with another -token-file setting.                  *)
(***************************************************************************)
\* main, lines 33-41: whether there is a token provider is decided at each
\* start of the process, from its flags.
Reconfigure ==
    /\ srv = "down"
    /\ boots >= 1
    /\ auth' = ~auth
    /\ UNCHANGED <<srv, memVars, mu, files, procs, resp, idVars, now, left,
                   committed, boots, faults>>

\* Volumes and checkpoints made and listed one request at a time, by a daemon
\* that is killed and started again with or without its token provider; the
\* clients send MaxListReqs requests.
ListingHandler(p) ==
    \/ CreateVolume(p)
    \/ DeleteCheck(p)
    \/ DeleteVolumeCall(p)
    \/ CheckpointStart(p)
    \/ CheckpointGet(p)
    \/ CheckpointLatest(p)
    \/ AddSnapshotCall(p)
    \/ CheckpointPut(p)
    \/ ListCheckpointsReq(p)
    \/ ListCheckpointsOwned(p)
    \/ ListCheckpointsLookup(p)
    \/ ListVolumesCall(p)

InitListing == InitWith(MaxListReqs)

NextListing ==
    \/ Start
    \/ Crash
    \/ Reconfigure
    \/ Deliver
    \/ \E p \in CrashProcs : ListingHandler(p)
    \/ \E p \in CrashProcs : Flush(p)

SpecListing == InitListing /\ [][NextListing]_vars

\* The manifests of which every snapshot is filed under a volume that is in
\* the registry and owned by caller.
ManifestsOwnedBy(caller) ==
    {m \in ListCheckpoints(cp) :
        \A k \in 1 .. Len(m.SnapshotIDs) :
            \E vid \in DOMAIN volumes :
                /\ volumes[vid].OwnerPrincipal = caller
                /\ m.SnapshotIDs[k] \in SnapshotIDsOf(snaps, vid)}

\* C15: with a token provider, what list-checkpoints answers is exactly the
\* set of stored manifests, each whole, of which every snapshot belongs to a
\* volume owned by the caller.
ListCheckpointsOwnedOnly ==
    (resp.op = "list_checkpoints" /\ resp.status = 200) =>
        resp.body = ManifestsOwnedBy(resp.caller)

\* The stored manifest references a snapshot of the caller's volume and one of
\* somebody else's, and the caller's list has come back empty.
ListCheckpointsOwnedOnlyWitness ==
    /\ resp.op = "list_checkpoints" /\ resp.status = 200
    /\ resp.body = {}
    /\ \E m \in ListCheckpoints(cp) :
          /\ \E k \in 1 .. Len(m.SnapshotIDs), vid \in DOMAIN volumes :
                /\ volumes[vid].OwnerPrincipal = resp.caller
                /\ m.SnapshotIDs[k] \in SnapshotIDsOf(snaps, vid)
          /\ \E k \in 1 .. Len(m.SnapshotIDs), vid \in DOMAIN volumes :
                /\ volumes[vid].OwnerPrincipal # resp.caller
                /\ m.SnapshotIDs[k] \in SnapshotIDsOf(snaps, vid)

\* The goroutines whose PutVolume has stored the record of operation op and
\* which are flushing it: the rename that ends the flush answers with it.
StoringVolume(p, op) ==
    /\ procs[p].op = op
    /\ procs[p].call = "PutVolume"
    /\ procs[p].pc \in {"fl_open", "fl_encode", "fl_close", "fl_rename"}

\* The principal an attach request acts as: the one its body names, else the
\* one of its token.
EffectivePrincipal(caller, req) ==
    IF req.principal # "" THEN req.principal ELSE caller

\* C16: an attach request on an existing volume whose effective principal is
\* not the volume's owner is answered 403 principal_mismatch (and changes
\* nothing); one whose effective principal is the owner goes on to PutVolume,
\* and the record it stores is attached, with a session that carries the
\* request's session_id (the generated one if that is empty), the effective
\* principal and the consumer endpoint.
AttachByOwnerOnly ==
    /\ \A vid \in DOMAIN volumes, caller \in Callers, req \in AttachRequests :
          LET a == handleAttachVolumeCheck(volumes, auth, caller, vid, req)
              eff == EffectivePrincipal(caller, req)
          IN  IF eff = ""
              THEN a.status = 400 /\ a.code = "missing_principal"
              ELSE IF eff # volumes[vid].OwnerPrincipal
              THEN a.status = 403 /\ a.code = "principal_mismatch"
              ELSE a.status = 0
    /\ \A p \in Procs :
          StoringVolume(p, "attach") =>
             LET v == procs[p].val
                 req == procs[p].req
                 eff == EffectivePrincipal(procs[p].caller, req)
             IN  /\ eff = procs[p].owner
                 /\ volumes[procs[p].vid] = v
                 /\ v.OwnerPrincipal = procs[p].owner
                 /\ v.AttachState = mountStateAttached
                 /\ v.MountHandle.State = mountStateAttached
                 /\ v.AttachSession.SessionID =
                       (IF req.session_id = "" THEN GeneratedSessionID
                        ELSE req.session_id)
                 /\ v.AttachSession.Principal = eff
                 /\ v.AttachSession.ConsumerEndpoint = req.consumer_endpoint
                 /\ v.AttachSession.AttachedAt = now

\* An attach whose body names no principal and no session id has stored its
\* record: the session has the token's principal and a generated id.
AttachByOwnerOnlyWitness ==
    \E p \in Procs :
        /\ StoringVolume(p, "attach") /\ procs[p].pc = "fl_rename"
        /\ procs[p].req.principal = "" /\ procs[p].req.session_id = ""
        /\ procs[p].val.AttachSession.Principal = procs[p].caller
        /\ procs[p].val.AttachSession.SessionID = GeneratedSessionID

\* C17: a detach request that passes the handler's checks is let through
\* whatever the volume's attach state is; the record it stores has attach_state
\* available and no session, whether the volume was attached or already
\* available; detaching twice gives what detaching once gives, and detaching
\* an available volume changes nothing of its attachment.
DetachFromAnyState ==
    /\ \A vid \in DOMAIN volumes, caller \in Callers :
          (~auth \/ volumes[vid].OwnerPrincipal = caller) =>
             /\ handleDetachVolumeCheck(volumes, auth, caller, vid,
                                        [session_id |-> ""]) = Proceed
             /\ DetachEdit(DetachEdit(volumes[vid])) = DetachEdit(volumes[vid])
             /\ (volumes[vid].AttachState = mountStateAvailable
                    => DetachEdit(volumes[vid]) = volumes[vid])
    /\ \A p \in Procs :
          StoringVolume(p, "detach") =>
             /\ volumes[procs[p].vid] = procs[p].val
             /\ procs[p].val.AttachState = mountStateAvailable
             /\ procs[p].val.MountHandle.State = mountStateAvailable
             /\ procs[p].val.AttachSession = NoSession
    /\ (resp # NoResp /\ resp.op = "detach" /\ Succeeded(resp)) =>
          /\ resp.status = 200
          /\ resp.body.AttachState = mountStateAvailable
          /\ resp.body.AttachSession = NoSession

\* A detach of a volume that was attached with a session (as last flushed) has
\* stored the record without the session and is about to rename.
DetachFromAnyStateWitness ==
    \E p \in Procs :
        /\ StoringVolume(p, "detach") /\ procs[p].pc = "fl_rename"
        /\ procs[p].vid \in DOMAIN committed.volumes
        /\ committed.volumes[procs[p].vid].AttachState = mountStateAttached
        /\ committed.volumes[procs[p].vid].AttachSession # NoSession
        /\ volumes[procs[p].vid].AttachSession = NoSession

\* The session an attach request asks for.
RequestedSession(p) ==
    Session(IF procs[p].req.session_id = "" THEN GeneratedSessionID
            ELSE procs[p].req.session_id,
            EffectivePrincipal(procs[p].caller, procs[p].req),
            procs[p].req.consumer_endpoint, now)

\* The step in which goroutine p's PutVolume stores the record of an attach
\* of a volume that is attached.
ReattachStep(p) ==
    /\ procs[p].op = "attach" /\ procs[p].pc = "put"
    /\ procs'[p].pc = "fl_open"
    /\ procs[p].vid \in DOMAIN volumes
    /\ volumes[procs[p].vid].AttachState = mountStateAttached

\* C18: an attach by the owner is let through when the volume is already
\* attached, and the step that stores it replaces the volume's session by the
\* one the request asks for: afterwards the volume is attached, its one
\* attach_session is the new session, and no other volume has changed.
ReattachReplacesSession ==
    [][ /\ \A vid \in DOMAIN volumes, caller \in Callers, req \in AttachRequests :
              (/\ volumes[vid].AttachState = mountStateAttached
               /\ EffectivePrincipal(caller, req) = volumes[vid].OwnerPrincipal)
                 => handleAttachVolumeCheck(volumes, auth, caller, vid, req) = Proceed
        /\ \A p \in Procs :
              ReattachStep(p) =>
                 /\ DOMAIN volumes' = DOMAIN volumes
                 /\ \A id \in DOMAIN volumes \ {procs[p].vid} :
                       volumes'[id] = volumes[id]
                 /\ volumes'[procs[p].vid].AttachState = mountStateAttached
                 /\ volumes'[procs[p].vid].AttachSession = RequestedSession(p)
                 /\ volumes'[procs[p].vid].AttachSession # NoSession ]_vars

\* A re-attach has replaced a session: the volume was last flushed attached
\* with one session id, and the registry now holds the session of the request
\* being flushed, with another session id.
ReattachReplacesSessionWitness ==
    \E p \in Procs :
        /\ StoringVolume(p, "attach") /\ procs[p].pc = "fl_rename"
        /\ procs[p].vid \in DOMAIN committed.volumes
        /\ committed.volumes[procs[p].vid].AttachState = mountStateAttached
        /\ committed.volumes[procs[p].vid].AttachSession.SessionID
              # RequestedSession(p).SessionID
        /\ volumes[procs[p].vid].AttachSession = RequestedSession(p)
        /\ volumes[procs[p].vid].AttachState = mountStateAttached

\* The step in which goroutine p's create request stores a new volume.
CreateStep(p) ==
    /\ procs[p].pc = "idle"
    /\ procs'[p].op = "create" /\ procs'[p].pc = "fl_open"

\* The step in which the PutVolume of an attach or detach stores the record
\* the handler read and edited.
UpsertStep(p) ==
    /\ procs[p].op \in {"attach", "detach"} /\ procs[p].pc = "put"
    /\ procs'[p].pc = "fl_open"

\* C19: with a token provider a create request without owner_principal goes
\* through and the volume it stores is owned by the caller's principal, and
\* one whose owner_principal is not the caller's is answered 403
\* principal_mismatch; without a token provider a create request without
\* owner_principal is answered 400 missing_owner.  A rejected request stores no
\* volume: a volume appears in the registry only in the step of a create
\* request that passed these checks (or when the PutVolume of an attach or
\* detach stores again a record that was deleted after the handler read it).
CreateOwnerRule ==
    [][ /\ \A caller \in Callers, req \in CreateRequests :
              LET a == handleCreateVolumeCheck(auth, caller, req)
              IN  /\ (auth /\ req.owner_principal = "") =>
                        a = Proceed /\ CreateOwner(auth, caller, req) = caller
                  /\ (auth /\ req.owner_principal \notin {"", caller}) =>
                        a.status = 403 /\ a.code = "principal_mismatch"
                  /\ (~auth /\ req.owner_principal = "") =>
                        a.status = 400 /\ a.code = "missing_owner"
        /\ \A p \in Procs :
              CreateStep(p) =>
                 LET id == procs'[p].vid
                     req == procs'[p].req
                 IN  /\ handleCreateVolumeCheck(auth, procs'[p].caller, req) = Proceed
                     /\ DOMAIN volumes' = DOMAIN volumes \cup {id}
                     /\ id \notin DOMAIN volumes
                     /\ volumes'[id].OwnerPrincipal =
                           (IF req.owner_principal = "" THEN procs'[p].caller
                            ELSE req.owner_principal)
                     /\ auth => volumes'[id].OwnerPrincipal = procs'[p].caller
                     /\ ~auth => req.owner_principal # ""
        /\ (DOMAIN volumes' \ DOMAIN volumes # {}) =>
              \E p \in Procs : CreateStep(p) \/ UpsertStep(p)
      ]_vars

\* With a token provider, a create request that named no owner has stored a
\* volume owned by its caller.
CreateOwnerRuleWitness ==
    \E p \in Procs :
        /\ auth
        /\ StoringVolume(p, "create") /\ procs[p].pc = "fl_rename"
        /\ procs[p].req.owner_principal = ""
        /\ procs[p].vid \in DOMAIN volumes
        /\ volumes[procs[p].vid].OwnerPrincipal = procs[p].caller
        /\ procs[p].caller \in Principals

\* The step in which goroutine p's DeleteVolume call runs.
DeleteStep(p) ==
    /\ procs[p].op = "delete" /\ procs[p].pc = "del"
    /\ procs'[p].pc # "del"

\* C20: a delete of a volume the registry does not have is answered 404
\* not_found and changes nothing in memory or on disk; a delete of a volume
\* the registry has removes that volume's record and no other, and leaves
\* every snapshot list (that of the deleted volume too) and every checkpoint
\* as it was.
DeleteRemovesOnlyTheVolume ==
    [][ /\ \A vid \in VolIDs \ DOMAIN volumes, caller \in Callers :
              LET a == handleDeleteVolumeCheck(volumes, auth, caller, vid)
              IN  IF auth THEN a = NotFound ELSE a = Proceed
        /\ \A p \in Procs :
              DeleteStep(p) =>
                 IF procs[p].vid \in DOMAIN volumes
                 THEN /\ DOMAIN volumes' = DOMAIN volumes \ {procs[p].vid}
                      /\ \A id \in DOMAIN volumes' : volumes'[id] = volumes[id]
                      /\ snaps' = snaps
                      /\ cp' = cp
                      /\ resp' = NoResp
                 ELSE /\ resp'.op = "delete" /\ resp'.vid = procs[p].vid
                      /\ resp'.status = 404 /\ resp'.code = "not_found"
                      /\ volumes' = volumes /\ snaps' = snaps /\ cp' = cp
                      /\ files' = files
        /\ (DOMAIN volumes \ DOMAIN volumes' # {}) => \E p \in Procs : DeleteStep(p)
      ]_vars

\* A delete has removed a volume and is about to rename: the volume's
\* snapshots are still listed under its id, a checkpoint still names one of
\* them, and another volume is still in the registry.
DeleteRemovesOnlyTheVolumeWitness ==
    \E p \in Procs :
        /\ procs[p].op = "delete" /\ procs[p].call = "DeleteVolume"
        /\ procs[p].pc = "fl_rename"
        /\ procs[p].vid \in DOMAIN committed.volumes
        /\ procs[p].vid \notin DOMAIN volumes
        /\ DOMAIN volumes # {}
        /\ procs[p].vid \in DOMAIN snaps
        /\ \E m \in Range(cp) :
              \E k \in 1 .. Len(m.SnapshotIDs) :
                  m.SnapshotIDs[k] \in SnapshotIDsOf(snaps, procs[p].vid)

\* C21: a volume record enters the registry only in the step of a create
\* request; no step of an attach, detach or delete adds one, however the
\* requests interleave.  (Volume ids are never reused, so a record that enters
\* in any other step is one that a delete had removed.)
VolumesOnlyByCreate ==
    [][ (DOMAIN volumes' \ DOMAIN volumes # {}) => \E p \in Procs : CreateStep(p) ]_vars

(***************************************************************************)
(* The lock: every store call of two goroutines and of main's Close, with  *)
(* the reading call GetVolume split at its RLock and RUnlock, and I/O      *)
(* errors in flushLocked; the clients send MaxLockReqs requests.           *)
(***************************************************************************)
LockHandler(p) ==
    \/ GetVolumeRLock(p)
    \/ GetVolumeRUnlock(p)
    \/ CreateVolume(p)
    \/ AttachGet(p)
    \/ AttachNow(p)
    \/ DetachGet(p)
    \/ PutVolumeCall(p)
    \/ DeleteCheck(p)
    \/ DeleteVolumeCall(p)
    \/ SnapshotGet(p)
    \/ AddSnapshotCall(p)
    \/ CheckpointStart(p)
    \/ CheckpointGet(p)
    \/ CheckpointLatest(p)
    \/ CheckpointPut(p)

InitLock == InitWith(MaxLockReqs)

NextLock ==
    \/ Start
    \/ CloseBegin
    \/ Exit
    \/ Deliver
    \/ \E p \in Procs : LockHandler(p)
    \/ \E p \in AllProcs : Flush(p)
    \/ \E p \in AllProcs : FlushFail(p)

SpecLock == InitLock /\ [][NextLock]_vars

\* Goroutine p is inside the critical section of a writing store call: between
\* its Lock and its deferred Unlock.
FlushPCs == {"fl_open", "fl_encode", "fl_close", "fl_rename"}
InSection(p) == procs[p].pc \in FlushPCs

\* At most one goroutine is inside a writing call, and it is the lock's holder;
\* while a goroutine is inside a reading call nobody is inside a writing call,
\* and what the reader has read is still what the maps hold.
LockInv ==
    /\ \A p, q \in AllProcs : (InSection(p) /\ InSection(q)) => p = q
    /\ \A p \in AllProcs : InSection(p) <=> mu = p
    /\ \A q \in AllProcs :
          procs[q].pc = "rlocked" =>
             /\ mu = NoProc
             /\ procs[q].val = GetVolume(volumes, procs[q].vid)

\* While the process runs, the maps change only in the step that takes the
\* free lock, and that step enters the flush with the lock held; the files
\* change only in steps of the lock's holder; and the lock passes from a
\* holder to nobody, never to another holder.
LockAct ==
    (srv = "up" /\ srv' = "up") =>
       /\ (memVars' # memVars) =>
             /\ LockFree
             /\ mu' \in AllProcs /\ procs'[mu'].pc \in FlushPCs
       /\ (files' # files) => (mu \in AllProcs /\ InSection(mu))
       /\ (mu # NoProc /\ mu' # mu) => (mu' = NoProc /\ InSection(mu))

\* C22: the writing store calls (PutVolume, AddSnapshot, PutCheckpoint,
\* DeleteVolume, flush) exclude each other: at most one goroutine is inside one
\* at any time, its critical section holds both the update of the maps and the
\* flush, and no reading call is inside its own section at the same time, so
\* no read sees the maps between an update and the end of its flush.
MutualExclusion == []LockInv /\ [][LockAct]_vars

\* A goroutine is inside a writing call, the maps updated and the state file
\* not yet replaced, while the other goroutine's request waits for the lock at
\* its own writing call.
MutualExclusionWitness ==
    \E p, q \in Procs :
        /\ p # q
        /\ mu = p /\ procs[p].pc = "fl_encode"
        /\ Mem # committed
        /\ procs[q].pc \in {"put", "del", "snap_add", "cp_add", "cp_put"}

\* Two goroutines are inside GetVolume at the same time.
ReadersOverlap ==
    \A q \in Procs : procs[q].pc = "rlocked"

\* The steps of a request that has started: its store calls and what follows
\* them.  The scheduler runs every goroutine that can run, and a goroutine
\* waiting in Lock or RLock gets the lock once it is free (sync.RWMutex queues
\* its waiters); the clients need not send anything.
Continue(p) ==
    \/ GetVolumeRUnlock(p)
    \/ AttachNow(p)
    \/ PutVolumeCall(p)
    \/ DeleteVolumeCall(p)
    \/ AddSnapshotCall(p)
    \/ CheckpointGet(p)
    \/ CheckpointLatest(p)
    \/ CheckpointPut(p)

FairLock ==
    /\ WF_vars(Deliver)
    /\ WF_vars(Exit)
    /\ \A p \in Procs : SF_vars(Continue(p))
    /\ \A p \in AllProcs : WF_vars(Flush(p) \/ FlushFail(p))

InitLockFair == InitWith(MaxFairReqs)

SpecLockFair == InitLockFair /\ [][NextLock]_vars /\ FairLock

\* C23: under fair scheduling every request that has started comes to its
\* end, and every store call that has taken the lock gives it back, also when
\* its flush fails.
EveryOperationReturns ==
    /\ \A p \in AllProcs : (procs[p].pc # "idle") ~> (procs[p].pc = "idle")
    /\ \A p \in AllProcs : (mu = p) ~> (mu = NoProc)

\* A flush has failed and its call has returned: the request is answered 500
\* store_error, the lock is free, and the other goroutine's request, which
\* waited for the lock at its writing call, can go on.
EveryOperationReturnsWitness ==
    /\ resp # NoResp /\ resp.status = 500 /\ resp.code = "store_error"
    /\ mu = NoProc
    /\ faults > 0
    /\ \E q \in Procs : procs[q].pc \in {"put", "del", "snap_add", "cp_add", "cp_put"}

\* The step in which goroutine p's request is answered 401 unauthorized.
UnauthorizedStep ==
    /\ resp = NoResp /\ resp' # NoResp
    /\ resp'.status = 401

\* C24: with a token provider, a request whose Authorization header is not a
\* bearer token, or whose token is not in the token file, is answered 401
\* unauthorized by the middleware; the step that answers it changes no volume,
\* snapshot or checkpoint, in memory or on disk, and starts no handler; and
\* every handler that runs carries a principal that a token resolved to.
UnauthenticatedRejected ==
    [][ /\ auth =>
              \A h \in Headers :
                 (~h.bearer \/ h.token \notin DOMAIN staticTokens) =>
                    /\ requireAuth(staticTokens, auth, h).status = 401
                    /\ requireAuth(staticTokens, auth, h).code = "unauthorized"
        /\ auth =>
              \A p \in Procs :
                 procs'[p].pc # "idle" =>
                    \E t \in DOMAIN staticTokens : procs'[p].caller = staticTokens[t]
        /\ UnauthorizedStep =>
              /\ auth
              /\ resp'.op = "" /\ resp'.code = "unauthorized"
              /\ UNCHANGED <<memVars, diskVars, mu, idVars>>
              /\ \A p \in Procs : procs'[p].pc = "idle" \/ procs'[p] = procs[p] ]_vars

\* With a token provider and a volume in the registry, a request has just been
\* answered 401 while the other goroutine's request is inside a store call.
UnauthenticatedRejectedWitness ==
    /\ auth
    /\ resp # NoResp /\ resp.status = 401 /\ resp.code = "unauthorized"
    /\ DOMAIN volumes # {}
    /\ \E q \in Procs : procs[q].pc # "idle"

\* C25: without a token provider no handler compares owners: for every volume
\* in the registry, whoever owns it, get answers 200 with the record, and
\* detach, delete, add-snapshot and list-snapshots pass their checks; the
\* requests of these kinds that found their volume are answered with success
\* unless the flush failed; list-volumes answers every volume and
\* list-checkpoints every manifest.
NoAuthSkipsOwnership ==
    ~auth =>
       /\ \A vid \in DOMAIN volumes :
             /\ handleGetVolume(volumes, auth, NoPrincipal, vid)
                   = Answer(200, "", volumes[vid])
             /\ handleDetachVolumeCheck(volumes, auth, NoPrincipal, vid,
                                        [session_id |-> ""]) = Proceed
             /\ handleDeleteVolumeCheck(volumes, auth, NoPrincipal, vid) = Proceed
             /\ \A req \in SnapshotRequests :
                   handleCreateSnapshotCheck(volumes, auth, NoPrincipal, vid, req)
                      = Proceed
             /\ handleListSnapshotsCheck(volumes, auth, NoPrincipal, vid) = Proceed
       /\ handleListVolumes(volumes, auth, NoPrincipal)
             = Answer(200, "", {volumes[id] : id \in DOMAIN volumes})
       /\ handleListCheckpoints(ListCheckpoints(cp), volumes, snaps, auth, NoPrincipal)
             = {Answer(200, "", {cp[id] : id \in DOMAIN cp})}
       /\ (/\ resp # NoResp
           /\ resp.op \in {"detach", "delete", "snapshot", "list_snapshots"}
           /\ resp.owner # NoOwner
           /\ resp.code # "store_error") => Succeeded(resp)

\* Without a token provider, a detach of a volume that has an owner has been
\* answered 200 to a request that carries no principal.
NoAuthSkipsOwnershipWitness ==
    /\ ~auth
    /\ resp # NoResp /\ resp.op = "detach" /\ resp.status = 200
    /\ resp.caller = NoPrincipal
    /\ resp.owner \in Principals
    /\ resp.vid \in DOMAIN volumes

\* C26: the owner_principal of a volume never changes: a step leaves the owner
\* of every volume that stays in the registry as it was, and a record that an
\* attach or detach is about to store, or has stored, has the owner the handler
\* read.
OwnerImmutable ==
    [][ /\ \A id \in DOMAIN volumes \cap DOMAIN volumes' :
              volumes'[id].OwnerPrincipal = volumes[id].OwnerPrincipal
        /\ \A p \in Procs :
              (procs'[p].op \in {"attach", "detach"} /\ procs'[p].pc # "idle") =>
                 /\ procs'[p].val.OwnerPrincipal = procs'[p].owner
                 /\ procs'[p].val.VolumeID = procs'[p].vid
                 /\ procs'[p].vid \in DOMAIN volumes' =>
                       volumes'[procs'[p].vid].OwnerPrincipal = procs'[p].owner ]_vars

\* A volume that was created and has a snapshot is being stored by a detach,
\* with the owner it was last flushed with.
OwnerImmutableWitness ==
    \E p \in Procs :
        /\ StoringVolume(p, "detach") /\ procs[p].pc = "fl_rename"
        /\ procs[p].vid \in DOMAIN committed.volumes
        /\ committed.volumes[procs[p].vid].OwnerPrincipal = procs[p].owner
        /\ volumes[procs[p].vid].OwnerPrincipal = procs[p].owner
        /\ procs[p].owner \in Principals
        /\ procs[p].vid \in DOMAIN snaps /\ Len(snaps[procs[p].vid]) > 0

(***************************************************************************)
(* The volume lifecycle while time passes: create, attach, detach and      *)
(* delete by two goroutines, and a clock that any step may find advanced;  *)
(* the clients send MaxClockReqs requests.                                 *)
(***************************************************************************)
\* time.Now() reads later.
Tick ==
    /\ now < MaxNow
    /\ now' = now + 1
    /\ UNCHANGED <<srv, auth, boots, faults, memVars, mu, procs, resp, idVars,
                   left, diskVars>>

ClockHandler(p) ==
    \/ CreateVolume(p)
    \/ AttachGet(p)
    \/ AttachNow(p)
    \/ DetachGet(p)
    \/ PutVolumeCall(p)
    \/ DeleteCheck(p)
    \/ DeleteVolumeCall(p)

InitClock == InitWith(MaxClockReqs)

NextClock ==
    \/ Start
    \/ Tick
    \/ Deliver
    \/ \E p \in Procs : ClockHandler(p)
    \/ \E p \in Procs : Flush(p)

SpecClock == InitClock /\ [][NextClock]_vars

\* C27: the created_at of a volume id never changes and its updated_at never
\* decreases: a step keeps the created_at of every volume that stays in the
\* registry, and the record the PutVolume of an attach or detach stores and
\* returns has the created_at the handler read for that id, whatever delete
\* did in between.
CreatedAtConstant ==
    [][ /\ \A id \in DOMAIN volumes \cap DOMAIN volumes' :
              /\ volumes'[id].CreatedAt = volumes[id].CreatedAt
              /\ volumes'[id].UpdatedAt >= volumes[id].UpdatedAt
        /\ \A p \in Procs :
              UpsertStep(p) =>
                 /\ procs'[p].val.CreatedAt = procs[p].val.CreatedAt
                 /\ procs'[p].val.UpdatedAt >= procs[p].val.UpdatedAt ]_vars

(***************************************************************************)
(* The volume lifecycle with volume ids as the uuid draws them: create,    *)
(* attach and delete by two goroutines, where a create may draw the id of  *)
(* a volume that exists.                                                   *)
(***************************************************************************)
DrawHandler(p) ==
    \/ CreateVolumeDrawn(p)
    \/ AttachGet(p)
    \/ AttachNow(p)
    \/ PutVolumeCall(p)
    \/ DeleteCheck(p)
    \/ DeleteVolumeCall(p)

NextDraw ==
    \/ Start
    \/ Deliver
    \/ \E p \in Procs : DrawHandler(p)
    \/ \E p \in Procs : Flush(p)

SpecDraw == Init /\ [][NextDraw]_vars

\* C28: the step of a create request stores its record under an id that the
\* registry did not have, leaves every record the registry had as it was, and
\* makes the registry one volume larger.
CreateAddsOneVolume ==
    [][ \A p \in Procs :
           CreateStep(p) =>
              /\ procs'[p].vid \notin DOMAIN volumes
              /\ \A id \in DOMAIN volumes :
                    id \in DOMAIN volumes' /\ volumes'[id] = volumes[id]
              /\ Cardinality(DOMAIN volumes') = Cardinality(DOMAIN volumes) + 1 ]_vars

\* C29: in every reachable state, with or without a token provider, the
\* session of every attached volume names the volume's owner as its principal.
SessionPrincipalIsOwner ==
    \A id \in DOMAIN volumes :
        volumes[id].AttachState = mountStateAttached =>
           /\ volumes[id].AttachSession # NoSession
           /\ volumes[id].AttachSession.Principal = volumes[id].OwnerPrincipal

\* With a token provider, an attach sent with another principal's token and a
\* body that names the owner has stored its session: the session's principal
\* is the owner, not the sender.  The other goroutine's detach waits at its
\* PutVolume.
SessionPrincipalIsOwnerWitness ==
    \E p \in Procs :
        /\ auth
        /\ StoringVolume(p, "attach") /\ procs[p].pc = "fl_rename"
        /\ procs[p].caller # procs[p].owner
        /\ volumes[procs[p].vid].AttachState = mountStateAttached
        /\ volumes[procs[p].vid].AttachSession.Principal = procs[p].owner
        /\ \E q \in Procs \ {p} : procs[q].op = "detach" /\ procs[q].pc = "put"

\* The step in which goroutine p's PutCheckpoint stores a manifest.
PutCheckpointStep(p) ==
    /\ procs[p].op = "checkpoint" /\ procs[p].pc = "cp_put"
    /\ procs'[p].pc = "fl_open"

\* The step in which the checkpoint request of goroutine p is answered 500
\* because the flush of its manifest failed.
CheckpointFailedStep(p) ==
    /\ procs[p].op = "checkpoint" /\ procs[p].call = "PutCheckpoint"
    /\ InSection(p)
    /\ resp' # NoResp /\ resp'.status = 500

\* C30: manifests are immutable and added only by a checkpoint request that
\* succeeds: while the process runs every step keeps every manifest of the
\* registry as it is, and every step keeps every manifest of the state file;
\* a manifest enters the registry only in the PutCheckpoint step of a
\* checkpoint request; and a checkpoint request that is answered with an
\* error leaves no manifest behind.
ManifestsImmutable ==
    [][ /\ (srv = "up" /\ srv' = "up") =>
              \A id \in DOMAIN cp : id \in DOMAIN cp' /\ cp'[id] = cp[id]
        /\ \A id \in DOMAIN committed.cp :
              id \in DOMAIN committed'.cp /\ committed'.cp[id] = committed.cp[id]
        /\ (srv = "up" /\ DOMAIN cp' \ DOMAIN cp # {}) =>
              \E p \in Procs : PutCheckpointStep(p)
        /\ \A p \in Procs :
              CheckpointFailedStep(p) => procs[p].val.ManifestID \notin DOMAIN cp' ]_vars

(***************************************************************************)
(* AddSnapshot for a volume that is gone.                                  *)
(***************************************************************************)
\* Goroutine p is at its AddSnapshot call in this step.
AddSnapshotStep(p) ==
    /\ procs[p].pc \in {"snap_add", "cp_add"}
    /\ procs'[p].pc # procs[p].pc

\* C31: an AddSnapshot call for a volume id that is not in the registry when
\* it takes the lock returns ErrVolumeNotFound: it changes no snapshot list,
\* no volume, no manifest and no file, holds no lock afterwards, and
\* handleCreateSnapshot answers 404 not_found (handleCreateCheckpoint, which
\* answers every AddSnapshot error alike, 500 store_error).  A call for a
\* volume that is in the registry appends the record.
AddSnapshotUnknownVolume ==
    [][ \A p \in Procs :
          AddSnapshotStep(p) =>
             LET vid == procs[p].val.VolumeID
             IN  IF vid \notin DOMAIN volumes
                 THEN /\ snaps' = snaps /\ volumes' = volumes /\ cp' = cp
                      /\ files' = files /\ mu' = NoProc
                      /\ procs'[p].pc = "idle"
                      /\ resp'.op = procs[p].op
                      /\ resp'.status = IF procs[p].op = "snapshot" THEN 404 ELSE 500
                      /\ resp'.code = IF procs[p].op = "snapshot" THEN "not_found"
                                      ELSE "store_error"
                 ELSE /\ vid \in DOMAIN snaps'
                      /\ Last(snaps'[vid]) = procs[p].val
                      /\ mu' = p ]_vars

\* handleCreateSnapshot found the volume, the volume was deleted before the
\* AddSnapshot call, and the request has been answered 404 with no snapshot
\* stored for the volume.
AddSnapshotUnknownVolumeWitness ==
    /\ resp.op = "snapshot" /\ resp.status = 404 /\ resp.code = "not_found"
    /\ resp.vid \notin DOMAIN volumes
    /\ resp.vid \notin DOMAIN snaps

(***************************************************************************)
(* list-volumes.                                                           *)
(***************************************************************************)
\* C32: with a token provider, what list-volumes answers is exactly the set
\* of stored volume records whose owner_principal is the caller's principal:
\* every record of the answer is stored and owned by the caller, and every
\* stored volume the caller owns is in the answer.
ListVolumesExactlyOwned ==
    (auth /\ resp.op = "list_volumes") =>
        /\ resp.status = 200
        /\ \A v \in resp.body :
              /\ v.OwnerPrincipal = resp.caller
              /\ v.VolumeID \in DOMAIN volumes
              /\ volumes[v.VolumeID] = v
        /\ \A id \in DOMAIN volumes :
              volumes[id].OwnerPrincipal = resp.caller => volumes[id] \in resp.body

\* With a token provider, a list-volumes answer that holds a volume of the
\* caller while a volume of another owner is stored.
ListVolumesExactlyOwnedWitness ==
    /\ auth /\ resp.op = "list_volumes" /\ resp.status = 200
    /\ resp.body # {}
    /\ \E id \in DOMAIN volumes : volumes[id].OwnerPrincipal # resp.caller

(***************************************************************************)
(* Startup on a state file the daemon did not write.                       *)
(***************************************************************************)
MaxLoadReqs == 2

\* The content of a state file left by an earlier run: one volume with one
\* snapshot and one manifest.
SampleVolume ==
    StampVolume(EmptyMap, NewVolume(1, "service:app1", "", 0, "", ""), 1)
SampleState ==
    [volumes |-> MapPut(EmptyMap, 1, SampleVolume),
     snaps |-> MapPut(EmptyMap, 1, <<NewSnapshot(1, 1, 1, "")>>),
     cp |-> MapPut(EmptyMap, 1, NewCheckpoint(1, <<1>>, 1, ""))]

\* What load can find at s.path: no file, a file that holds no complete JSON
\* value, or a JSON object with any of the three collections left out.
LoadInputs ==
    LET full == EncodeState(SampleState.volumes, SampleState.snaps, SampleState.cp)
    IN  {Absent, Partial} \cup
        {JSONFile([k \in K |-> full[k]]) :
            K \in SUBSET {"volumes", "snapshots", "checkpoints"}}

\* The ids of SampleState are taken.
InitLoad ==
    /\ srv = "down"
    /\ auth \in BOOLEAN
    /\ volumes = EmptyMap /\ snaps = EmptyMap /\ cp = EmptyMap
    /\ mu = NoProc
    /\ \E f \in LoadInputs :
          /\ files = [x \in Paths |-> IF x = statePath THEN f ELSE Absent]
          /\ committed = LoadFile(f).state
    /\ procs = [p \in AllProcs |-> IdleProc]
    /\ resp = NoResp
    /\ nextVol = 2 /\ nextSnap = 2 /\ nextCp = 2
    /\ now = 1
    /\ left = MaxLoadReqs
    /\ boots = 0
    /\ faults = 0

NextLoad ==
    \/ Start
    \/ Crash
    \/ Deliver
    \/ \E p \in CrashProcs : CreateVolume(p)
    \/ \E p \in CrashProcs : ListVolumesCall(p)
    \/ \E p \in CrashProcs : Flush(p)

SpecLoad == InitLoad /\ [][NextLoad]_vars

\* NewFileStore runs in this step.
LoadStep == srv = "down" /\ srv' # "down"

\* C33: NewFileStore on an absent state file returns a store with no
\* volumes, snapshots or checkpoints; on a file that cannot be decoded it
\* returns an error and no store (the daemon serves no request); on a
\* decodable file it returns a store where each collection the file names
\* holds the decoded records and each collection the file leaves out is
\* empty.
LoadAtStartup ==
    /\ [](srv = "failed" =>
             /\ resp = NoResp
             /\ \A p \in AllProcs : procs[p].pc = "idle")
    /\ [][ LoadStep =>
             LET f == files[statePath]
             IN  CASE f = Absent ->
                        /\ srv' = "up"
                        /\ volumes' = EmptyMap /\ snaps' = EmptyMap /\ cp' = EmptyMap
                   [] f.kind = "partial" ->
                        /\ srv' = "failed"
                        /\ UNCHANGED <<files, resp, procs>>
                   [] f.kind = "json" ->
                        /\ srv' = "up"
                        /\ IF "volumes" \in DOMAIN f.data
                           THEN /\ DOMAIN volumes' = DOMAIN f.data.volumes
                                /\ \A id \in DOMAIN volumes' :
                                      EncVolume(volumes'[id]) = f.data.volumes[id]
                           ELSE volumes' = EmptyMap
                        /\ IF "snapshots" \in DOMAIN f.data
                           THEN /\ DOMAIN snaps' = DOMAIN f.data.snapshots
                                /\ \A id \in DOMAIN snaps' :
                                      /\ Len(snaps'[id]) = Len(f.data.snapshots[id])
                                      /\ \A i \in 1 .. Len(snaps'[id]) :
                                            EncSnapshot(snaps'[id][i]) =
                                               f.data.snapshots[id][i]
                           ELSE snaps' = EmptyMap
                        /\ IF "checkpoints" \in DOMAIN f.data
                           THEN /\ DOMAIN cp' = DOMAIN f.data.checkpoints
                                /\ \A id \in DOMAIN cp' :
                                      EncCheckpoint(cp'[id]) = f.data.checkpoints[id]
                           ELSE cp' = EmptyMap ]_vars

\* The daemon has started on a file that names volumes and checkpoints and
\* leaves the snapshots out: it holds the volume and the manifest of the file
\* and no snapshot list.
LoadAtStartupWitness ==
    /\ srv = "up" /\ boots = 1 /\ left = MaxLoadReqs
    /\ files[statePath].kind = "json"
    /\ DOMAIN files[statePath].data = {"volumes", "checkpoints"}
    /\ volumes = SampleState.volumes
    /\ cp = SampleState.cp
    /\ snaps = EmptyMap

(***************************************************************************)
(* A flush that fails.                                                     *)
(***************************************************************************)
\* The store call of request goroutine p returns a flush error in this step.
FlushErrorStep(p) ==
    /\ mu = p /\ procs[p].pc \in FlushPCs
    /\ faults' # faults

\* The maps hold what the store call of goroutine p put into them.
MutationInMemory(p, vols, sn, cps) ==
    LET pr == procs[p]
    IN  CASE pr.call = "PutVolume" ->
                pr.val.VolumeID \in DOMAIN vols /\ vols[pr.val.VolumeID] = pr.val
          [] pr.call = "AddSnapshot" ->
                /\ pr.val.VolumeID \in DOMAIN sn
                /\ Last(sn[pr.val.VolumeID]) = pr.val
          [] pr.call = "PutCheckpoint" ->
                pr.val.ManifestID \in DOMAIN cps /\ cps[pr.val.ManifestID] = pr.val
          [] pr.call = "DeleteVolume" -> pr.vid \notin DOMAIN vols

\* C34: when PutVolume, AddSnapshot, PutCheckpoint or DeleteVolume returns a
\* flush error, the request is answered 500 store_error and the maps are left
\* as the call changed them: the stored volume, the appended snapshot, the
\* stored manifest is still there, the deleted volume still gone, so every
\* later read returns it.  And every flush that renames, of whichever
\* operation, writes the whole of the maps, whatever earlier flushes failed:
\* the state file then decodes to the maps in memory.
NoRollbackOnFlushError ==
    [][ /\ \A p \in Procs :
              FlushErrorStep(p) =>
                 /\ volumes' = volumes /\ snaps' = snaps /\ cp' = cp
                 /\ MutationInMemory(p, volumes', snaps', cp')
                 /\ resp'.status = 500 /\ resp'.code = "store_error"
                 /\ mu' = NoProc
        /\ \A p \in AllProcs :
              (mu = p /\ procs[p].pc = "fl_rename" /\ files' # files) =>
                 /\ Disk'.ok
                 /\ Disk'.state = Mem
                 /\ p \in Procs => Mem' = Mem ]_vars

\* Two requests have been sent since the start.  The flush of the first
\* failed; the second, a create, has been answered 201, and the state file
\* holds two volumes: its own and that of the request answered 500.
NoRollbackOnFlushErrorWitness ==
    /\ srv = "up" /\ boots = 1 /\ faults = 1 /\ left = MaxReqs - 2
    /\ resp.op = "create" /\ resp.status = 201
    /\ Disk.ok
    /\ Cardinality(DOMAIN Disk.state.volumes) = 2

(***************************************************************************)
(* A checkpoint request that fails.                                        *)
(***************************************************************************)
\* The checkpoint request of goroutine p is answered with an error in this
\* step.
CheckpointErrorStep(p) ==
    /\ procs[p].op = "checkpoint"
    /\ resp = NoResp /\ resp' # NoResp
    /\ resp'.op = "checkpoint"
    /\ resp'.status \in {400, 403, 500}

\* C35: a checkpoint request answered 400 invalid_volume, 403
\* principal_mismatch or 500 store_error leaves no manifest of its own in the
\* registry, and the snapshots it collected for the volumes before the
\* failing one, auto-generated ones included, are still in the catalog.
FailedCheckpointKeepsSnapshots ==
    [][ \A p \in Procs :
          CheckpointErrorStep(p) =>
             /\ procs[p].call = "PutCheckpoint" =>
                   procs[p].val.ManifestID \notin DOMAIN cp'
             /\ procs[p].call # "PutCheckpoint" => cp' = cp
             /\ \A k \in 1 .. Len(procs[p].out) :
                   VolumeIDsForSnapshot(snaps', procs[p].out[k]) # {} ]_vars

(***************************************************************************)
(* The mount handle.                                                       *)
(***************************************************************************)
\* The mount handle of record v agrees with the rest of the record.
MountHandleConsistent(v) ==
    /\ v.MountHandle.State = v.AttachState
    /\ v.AttachState \in {mountStateAvailable, mountStateAttached}
    /\ v.MountHandle.HostPath = <<mountRoot, v.VolumeID>>
    /\ v.MountHandle.Mode = v.ExportMode

\* C36: in every reachable state every volume of the registry, and every
\* volume of the state file, has mount_handle.state equal to attach_state;
\* its host_path is the one made from its id at creation and its mode the
\* export mode given at creation, and no step changes the host_path or the
\* mode of a volume that stays in the registry.
MountHandleFollowsAttachState ==
    /\ [](/\ \A id \in DOMAIN volumes : MountHandleConsistent(volumes[id])
          /\ \A id \in DOMAIN committed.volumes :
                MountHandleConsistent(committed.volumes[id]))
    /\ [][ \A id \in DOMAIN volumes \cap DOMAIN volumes' :
              /\ volumes'[id].MountHandle.HostPath = volumes[id].MountHandle.HostPath
              /\ volumes'[id].MountHandle.Mode = volumes[id].MountHandle.Mode ]_vars

\* An attach has been answered 200: the stored volume is attached in both
\* fields, and the other volume of the registry is available in both.
MountHandleFollowsAttachStateWitness ==
    /\ resp.op = "attach" /\ resp.status = 200
    /\ resp.vid \in DOMAIN volumes
    /\ volumes[resp.vid].AttachState = mountStateAttached
    /\ volumes[resp.vid].MountHandle.State = mountStateAttached
    /\ \E id \in DOMAIN volumes :
          /\ id # resp.vid
          /\ volumes[id].MountHandle.State = mountStateAvailable

(***************************************************************************)
(* Manifests and the snapshot catalog.                                     *)
(***************************************************************************)
\* Every snapshot id of every manifest in cps is the id of a snapshot in sn.
NoDangling(cps, sn) ==
    \A m \in ListCheckpoints(cps) :
        \A k \in 1 .. Len(m.SnapshotIDs) :
            VolumeIDsForSnapshot(sn, m.SnapshotIDs[k]) # {}

\* C37: in every reachable state every snapshot id listed in a stored
\* manifest is the id of a snapshot of the catalog, in the registry and in
\* the state file alike, whether or not the snapshot's volume still exists.
NoDanglingSnapshotReference ==
    /\ NoDangling(cp, snaps)
    /\ NoDangling(committed.cp, committed.snaps)

\* A manifest lists a snapshot whose volume has been deleted; the snapshot
\* is still in the catalog, so VolumeIDForSnapshot still finds it.
NoDanglingSnapshotReferenceWitness ==
    \E m \in ListCheckpoints(cp) :
        \E k \in 1 .. Len(m.SnapshotIDs) :
            \E vid \in VolumeIDsForSnapshot(snaps, m.SnapshotIDs[k]) :
                vid \notin DOMAIN volumes

(***************************************************************************)
(* Manifests of deleted volumes: checkpoints made and listed while volumes *)
(* are created, detached and deleted by two goroutines, with a token       *)
(* provider; the clients send MaxReviveReqs requests.                      *)
(***************************************************************************)
MaxReviveReqs == 4

ReviveHandler(p) ==
    \/ CreateVolume(p)
    \/ DetachGet(p)
    \/ PutVolumeCall(p)
    \/ DeleteCheck(p)
    \/ DeleteVolumeCall(p)
    \/ CheckpointStart(p)
    \/ CheckpointGet(p)
    \/ CheckpointLatest(p)
    \/ AddSnapshotCall(p)
    \/ CheckpointPut(p)
    \/ ListCheckpointsReq(p)
    \/ ListCheckpointsOwned(p)
    \/ ListCheckpointsLookup(p)

InitRevive == InitWith(MaxReviveReqs) /\ auth

NextRevive ==
    \/ Start
    \/ Deliver
    \/ \E p \in Procs : ReviveHandler(p)
    \/ \E p \in Procs : Flush(p)

SpecRevive == InitRevive /\ [][NextRevive]_vars

\* The manifests of ms that list a snapshot filed under volume vid.
ManifestsOf(ms, sn, vid) ==
    {m \in ms :
        \E k \in 1 .. Len(m.SnapshotIDs) :
            vid \in VolumeIDsForSnapshot(sn, m.SnapshotIDs[k])}

\* Goroutine p answers a list-checkpoints request on this step.
ListCheckpointsAnswers(p) ==
    /\ procs[p].pc \in {"lc_owned", "lc_lookup"}
    /\ procs'[p].pc = "idle"
    /\ resp'.op = "list_checkpoints"

\* C38: with a token provider, once a volume has been deleted no manifest
\* that lists one of its snapshots is in a list-checkpoints answer: not in
\* any answer any principal can be given in this state, not in the answer
\* given to a request that came in when the volume was deleted, and no later
\* step brings such a manifest back into an answer of any principal.
DeletedVolumeHidesManifest ==
    /\ [](auth =>
            \A vid \in VolIDs :
               WasDeleted(vid) =>
                  \A caller \in Principals :
                     \A a \in handleListCheckpoints(ListCheckpoints(cp), volumes,
                                                    snaps, auth, caller) :
                        ManifestsOf(a.body, snaps, vid) = {})
    /\ [][ auth =>
             /\ \A p \in Procs :
                   ListCheckpointsAnswers(p) =>
                      \A vid \in procs[p].val.gone :
                         ManifestsOf(resp'.body, snaps', vid) = {}
             /\ \A vid \in VolIDs :
                   (WasDeleted(vid) /\ srv' = "up") =>
                      \A caller \in Principals :
                         \A a \in handleListCheckpoints(ListCheckpoints(cp'),
                                      volumes', snaps', auth', caller) :
                            ManifestsOf(a.body, snaps', vid) = {} ]_vars

(***************************************************************************)
(* What one principal sees of the requests of another.                     *)
(***************************************************************************)
\* What list-volumes answers principal b in this state, and the answers
\* list-checkpoints can give it.
ViewOf(vols, sn, cps, b) ==
    [volumes |-> handleListVolumes(vols, TRUE, b).body,
     checkpoints |-> {a.body : a \in handleListCheckpoints(ListCheckpoints(cps),
                                                           vols, sn, TRUE, b)}]

\* This step belongs to a request of principal a: its goroutine starts,
\* makes a store call, or ends.
RequestStepOf(a) ==
    /\ srv = "up" /\ srv' = "up"
    /\ \E p \in Procs :
          /\ procs'[p] # procs[p]
          /\ a \in {procs[p].caller, procs'[p].caller}

\* C39: with a token provider, no step of a request of one principal changes
\* what list-volumes or list-checkpoints answers another principal; so what
\* B is answered is the same whether or not A's requests were made, a
\* checkpoint request of A that owns no volume included.
NonInterference ==
    [][ auth =>
          \A a \in Principals, b \in Principals :
             (a # b /\ RequestStepOf(a)) =>
                ViewOf(volumes', snaps', cp', b) = ViewOf(volumes, snaps, cp, b) ]_vars

(***************************************************************************)
(* The frame of attach and detach.                                         *)
(***************************************************************************)
\* Record w is record v but for attach_state, attach_session,
\* mount_handle.state and updated_at.
SameButAttachment(v, w) ==
    [w EXCEPT !.AttachState = v.AttachState, !.AttachSession = v.AttachSession,
              !.MountHandle.State = v.MountHandle.State,
              !.UpdatedAt = v.UpdatedAt] = v

\* C40: the PutVolume of an attach or detach of volume V changes, of all the
\* maps, only V's attach_state, attach_session, mount_handle.state and
\* updated_at: V is in the registry before and after, its other fields are
\* what they were in the registry and what the handler had read, every other
\* volume, every snapshot list and every manifest is as it was, whatever
\* other requests run beside it.
AttachDetachFrame ==
    [][ \A p \in Procs :
          UpsertStep(p) =>
             LET vid == procs[p].vid
             IN  /\ snaps' = snaps /\ cp' = cp
                 /\ DOMAIN volumes' = DOMAIN volumes \cup {vid}
                 /\ \A id \in DOMAIN volumes \ {vid} : volumes'[id] = volumes[id]
                 /\ SameButAttachment(procs[p].val, volumes'[vid])
                 /\ vid \in DOMAIN volumes
                 /\ SameButAttachment(volumes[vid], volumes'[vid]) ]_vars

====
